---- MODULE Spec2Model ----
(***************************************************************************)
(* Model of the dexboost server: the token store, the vote store, the pin  *)
(* order workflow with its two payment pollers (src/server.ts and          *)
(* src/index.ts run in the same process) and the reconciliation loop.      *)
(* Every await of the code is a step boundary: a handler is a small        *)
(* process whose pc names the await it is suspended at.                    *)
(***************************************************************************)
EXTENDS Integers, Sequences, FiniteSets, TLC

(***************************************************************************)
(* Bounds of the model.                                                    *)
(***************************************************************************)
MaxTicks == 2
MaxOrders == 1
MaxCycles == 2
MaxFaults == 1
MaxBalance == 4
MaxReqs == 2
MaxTotal == 3
MaxConns == 2
MaxInbox == 3
MaxPosts == 4
MaxList == 2
\* polls of the payment poller before the clock stops
MaxPolls == 182
\* wsRetries of the TokenTable client is followed up to this value
MaxAttempts == 7

(***************************************************************************)
(* Program constants.                                                      *)
(***************************************************************************)
\* db.ts:481 and db.ts:597: one hour in milliseconds
HourMs == 60 * 60 * 1000
\* db.ts:373: 30 minutes to pay
PayWindowMs == 30 * 60 * 1000
\* the clock advances in steps of 40 minutes; it starts at a positive epoch time
TickMs == 40 * 60 * 1000
StartTime == TickMs
\* SQL NULL of an INTEGER column (outside the range of the timestamps)
NULL == 0 - 1
\* transactions.ts:41,45: balances and costs are counted in units of 0.0005 SOL,
\* so the tolerance 0.001 is two units
Tolerance == 2

Addresses == {"Apump", "Bpump"}
\* the token the pin orders of the model are for
PinAddresses == {"Apump"}
\* the token the vote requests of the model are for
VoteAddresses == {"Apump"}
Hours == {1, 2}
Costs == {0, 4}
Deposits == {4}
Statuses == {"pending", "paid", "expired", "completed", "refund_needed"}
Cycles == 1 .. MaxCycles
OrderIds == 1 .. MaxOrders
\* the poller of server.ts (every 10 s) and processPayments of index.ts (every 30 s)
Kinds == {"server", "index"}
Users == {"u1", "u2"}
Reqs == 1 .. MaxReqs
Conns == 1 .. MaxConns

VARIABLES
    now,        \* Date.now()
    tokens,     \* table tokens: address -> row, or NoRow
    orders,     \* table pin_orders: sequence of rows, the id is the index
    balance,    \* chain balance of each order's payment address
    cyc,        \* the poll cycles in flight
    faults,     \* failures of external calls and store writes injected so far
    pinCount,   \* history: pin effects applied on behalf of each order
    pinNotes,   \* history: PIN_UPDATE broadcasts sent for each order
    votes,      \* table votes: the rows in insertion order
    req,        \* the POST /api/vote requests in flight
    feed,       \* what the boosts endpoint reports for each address
    hunt,       \* the reconciliation tick (startHunter.main) in flight
    ups,        \* the upsertTokenBoost call in flight
    conns,      \* wss.clients: the state of each subscriber connection
    inbox,      \* history: the events each subscriber connection was sent
    pay,        \* a call of verifyPayment: its inputs and its answer
    listing,    \* the last response of GET /api/tokens
    sweep,      \* the call of deleteOldTokens in flight
    keygen,     \* the number of keypairs Keypair.generate() has produced
    post,       \* the last reply of POST /api/pin-order or GET /api/pin-order/:orderId
    timers,     \* the delays of the pending calls of main (setTimeout, and the first call)
    fetch,      \* a call of getEndpointData on the boosts endpoint: the response and the answer
    clean,      \* a run of the cleanup script: its position and the tokens it has deleted
    ws          \* the TokenTable client: its socket, the wsRetries state and the error it shows

pinVars == <<orders, balance, cyc, pinCount, pinNotes>>
voteVars == <<votes, req>>
huntVars == <<feed, hunt, ups>>
fanVars == <<conns, inbox>>
vars == <<now, tokens, faults, pinVars, voteVars, huntVars, fanVars, pay, listing, sweep, keygen, post, timers, fetch, clean, ws>>

NoRow == [present |-> FALSE]
NotListed == [amount |-> 0, totalAmount |-> 0]
IdleHunt == [pc |-> "idle", batch |-> <<>>, skipped |-> {}, passed |-> {}, filtered |-> {}]
IdleUpsert == [pc |-> "idle", caller |-> "none", token |-> NotListed, address |-> "",
               recordAdded |-> 0, existing |-> NoRow, result |-> FALSE]
NoPayment == [pc |-> "idle", lamports |-> 0, halfSols |-> 0, lookupFails |-> FALSE,
              result |-> FALSE]
\* no request of GET /api/tokens was answered yet
NoListing == [status |-> "none", rows |-> <<>>, at |-> 0]
\* getEndpointData was not called yet
\* TokenTable after its first render and effect: wsRetries is 0 (line 48), error is null
\* (line 47), connectWebSocket was called once (line 171) and its socket is connecting;
\* seen is the wsRetries of the render that created connectWebSocket: the effect has no
\* dependencies (line 178), so it is the 0 of the first render for good
MountedWs == [pc |-> "connecting", wsRetries |-> 0, seen |-> 0, error |-> "null", timer |-> 0]
IdleClean == [pc |-> "idle", deleted |-> {}]
NoFetch == [pc |-> "idle", response |-> [kind |-> "none", data |-> <<>>],
            answer |-> [kind |-> "none", data |-> <<>>]]
\* POST /api/pin-order was not answered yet
NoReply == [status |-> 0, id |-> 0, paymentAddress |-> 0, expiresAt |-> 0]
\* deleteOldTokens is not running; deleted and votesGone are history: the addresses
\* whose row and whose votes the call removed
IdleSweep == [pc |-> "idle", cutoff |-> 0, tokensToDelete |-> <<>>, deleted |-> {},
              votesGone |-> {}]
IdleReq == [pc |-> "idle", tokenAddress |-> "", userId |-> "", vote |-> 0, resp |-> "none",
            wrote |-> FALSE]
IdleCycle == [pc |-> "idle", kind |-> "server", queue |-> <<>>, t |-> 0, cur |-> 0, newPin |-> 0]

\* JavaScript's x || 0 on a nullable number
OrZero(x) == IF x = NULL \/ x = 0 THEN 0 ELSE x
\* JavaScript's x || null on an optional number (undefined is modelled as NULL)
OrNull(x) == IF x = NULL \/ x = 0 THEN NULL ELSE x
Abs(x) == IF x < 0 THEN 0 - x ELSE x

(***************************************************************************)
(* The fan-out: wss.clients and the two loops that send an event to it.    *)
(* A connection is "none" (not in wss.clients), "open" (readyState OPEN),  *)
(* "closing" (in wss.clients, readyState not OPEN) or "broken" (readyState *)
(* OPEN, send throws).                                                     *)
(***************************************************************************)
ConnStates == {"none", "open", "closing", "broken"}
Event(type, a) == [type |-> type, tokenAddress |-> a]

\* index.ts broadcast(data): every client with readyState OPEN is sent the event, each
\* send inside its own try/catch
broadcast(cs, ib, ev) ==
    [i \in Conns |-> IF cs[i] = "open" THEN Append(ib[i], ev) ELSE ib[i]]

\* server.ts:98-105: wss.clients.forEach with client.send outside any try/catch: the
\* first send that throws ends the loop and the exception leaves it
FirstBroken(cs) ==
    IF \E i \in Conns : cs[i] = "broken"
    THEN CHOOSE i \in Conns : cs[i] = "broken" /\ \A j \in Conns : cs[j] = "broken" => i <= j
    ELSE MaxConns + 1
pinLoop(cs, ib, ev) ==
    [inbox |-> [i \in Conns |-> IF cs[i] = "open" /\ i < FirstBroken(cs)
                                THEN Append(ib[i], ev) ELSE ib[i]],
     threw |-> FirstBroken(cs) <= MaxConns]

\* the histories are kept up to MaxInbox events
InboxRoom == \A i \in Conns : Len(inbox[i]) < MaxInbox

\* wss.on('connection'): a subscriber connects
Connect(i) ==
    /\ conns[i] = "none"
    /\ conns' = [conns EXCEPT ![i] = "open"]
    /\ UNCHANGED <<now, tokens, faults, pinVars, voteVars, huntVars, inbox, pay, listing, sweep, keygen, post, timers, fetch, clean, ws>>

\* the socket of an open connection goes bad: the next send on it throws
Break(i) ==
    /\ conns[i] = "open"
    /\ conns' = [conns EXCEPT ![i] = "broken"]
    /\ UNCHANGED <<now, tokens, faults, pinVars, voteVars, huntVars, inbox, pay, listing, sweep, keygen, post, timers, fetch, clean, ws>>

\* a connection starts closing: its readyState is no longer OPEN
Close(i) ==
    /\ conns[i] \in {"open", "broken"}
    /\ conns' = [conns EXCEPT ![i] = "closing"]
    /\ UNCHANGED <<now, tokens, faults, pinVars, voteVars, huntVars, inbox, pay, listing, sweep, keygen, post, timers, fetch, clean, ws>>

\* ws.on('close'): the connection leaves wss.clients
Drop(i) ==
    /\ conns[i] = "closing"
    /\ conns' = [conns EXCEPT ![i] = "none"]
    /\ UNCHANGED <<now, tokens, faults, pinVars, voteVars, huntVars, inbox, pay, listing, sweep, keygen, post, timers, fetch, clean, ws>>

(***************************************************************************)
(* The clock and the chain.                                                *)
(***************************************************************************)
Tick ==
    /\ now < StartTime + MaxTicks * TickMs
    /\ now' = now + TickMs
    /\ UNCHANGED <<tokens, orders, balance, cyc, faults, pinCount, pinNotes, voteVars, huntVars, fanVars, pay, listing, sweep, keygen, post, timers, fetch, clean, ws>>

\* funds arrive at the payment address of an order
Deposit(o, d) ==
    /\ o \in 1 .. Len(orders)
    /\ balance[o] + d <= MaxBalance
    /\ balance' = [balance EXCEPT ![o] = @ + d]
    /\ UNCHANGED <<now, tokens, orders, cyc, faults, pinCount, pinNotes, voteVars, huntVars, fanVars, pay, listing, sweep, keygen, post, timers, fetch, clean, ws>>

(***************************************************************************)
(* db.ts: pin orders.                                                      *)
(***************************************************************************)
\* db.ts:370: Buffer.from(keypair.secretKey).toString('base64'), the secret half of the
\* keypair whose public half is key; no other value of the model is below -1
Secret(key) == 0 - 1 - key

\* db.ts:399-403: return { id: result.lastID, paymentAddress, expiresAt }, sent by
\* res.json(order) at server.ts:71
createdReply(row, id) ==
    [status |-> 200, id |-> id, paymentAddress |-> row.paymentAddress,
     expiresAt |-> row.expiresAt]

\* an insert that stores the same payment address for every order
createPinOrder_SharedAddress(ords, a, h, cost, t, key) ==
    Append(ords,
        [tokenAddress |-> a, hours |-> h, cost |-> cost, paymentAddress |-> 1,
         paymentPrivateKey |-> Secret(1),
         status |-> "pending", createdAt |-> t, expiresAt |-> t + PayWindowMs,
         paidAt |-> NULL])

\* db.ts:372-397: const now = Date.now(); expiresAt = now + 30 minutes; the INSERT of
\* the row with the generated payment address and status 'pending'
createPinOrder(ords, a, h, cost, t, key) ==
    Append(ords,
        [tokenAddress |-> a, hours |-> h, cost |-> cost, paymentAddress |-> key,
         paymentPrivateKey |-> Secret(key),
         status |-> "pending", createdAt |-> t, expiresAt |-> t + PayWindowMs,
         paidAt |-> NULL])

\* POST /api/pin-order (server.ts:65-76) calling createPinOrder (db.ts:359-410):
\* Keypair.generate() yields a keypair that was not generated before; when the INSERT
\* throws, the handler answers 400 and nothing is stored
PostPinOrder(a, h, cost, ok) ==
    /\ keygen < MaxPosts
    /\ ~ok => faults < MaxFaults
    /\ faults' = IF ok THEN faults ELSE faults + 1
    /\ keygen' = keygen + 1
    /\ orders' = IF ok THEN createPinOrder(orders, a, h, cost, now, keygen') ELSE orders
    /\ post' = IF ok THEN createdReply(orders'[Len(orders')], Len(orders'))
                     ELSE [NoReply EXCEPT !.status = 400]
    /\ UNCHANGED <<now, tokens, balance, cyc, pinCount, pinNotes, voteVars, huntVars, fanVars, pay, listing, sweep, timers, fetch, clean, ws>>

\* a request that is answered with an order
CreatePinOrder(a, h, cost) ==
    /\ Len(orders) < MaxOrders
    /\ PostPinOrder(a, h, cost, TRUE)

\* SELECT * FROM pin_orders WHERE status = 'pending' AND expiresAt > now, in id order
RECURSIVE PendingFrom(_, _, _)
PendingFrom(ords, i, t) ==
    IF i > Len(ords) THEN <<>>
    ELSE IF ords[i].status = "pending" /\ ords[i].expiresAt > t
         THEN <<i>> \o PendingFrom(ords, i + 1, t)
         ELSE PendingFrom(ords, i + 1, t)
getPendingOrders(ords, t) == PendingFrom(ords, 1, t)

\* UPDATE pin_orders SET status = ?, paidAt = ? WHERE id = ?
updateOrderStatus(ords, id, status, paidAt) ==
    [ords EXCEPT ![id].status = status, ![id].paidAt = OrNull(paidAt)]

\* UPDATE pin_orders SET status = 'expired' WHERE status = 'paid' AND paidAt + hours*3600*1000 < now
checkAndExpirePins(ords, t) ==
    [i \in 1 .. Len(ords) |->
        IF ords[i].status = "paid" /\ ords[i].paidAt # NULL
              /\ ords[i].paidAt + ords[i].hours * 3600 * 1000 < t
        THEN [ords[i] EXCEPT !.status = "expired"]
        ELSE ords[i]]

canTokenBePinned == TRUE

\* transactions.ts: Math.abs(solBalance - expectedAmount) < 0.001
verifyPayment(bal, expectedAmount) == Abs(bal - expectedAmount) < Tolerance

(***************************************************************************)
(* db.ts: updateTokenPin.                                                  *)
(***************************************************************************)
\* line 479: currentToken?.pinnedUntil || 0, of the row read at line 473
currentPinnedUntil(row) == IF row.present THEN OrZero(row.pinnedUntil) ELSE 0

\* a pin that always starts now, whatever pin is still running
newPinnedUntil_FromNow(current, t, hours) == t + hours * 60 * 60 * 1000

\* lines 480-481
newPinnedUntil(current, t, hours) ==
    LET baseTime == IF current > t THEN current ELSE t
    IN  baseTime + hours * 60 * 60 * 1000

\* a pin update that stores a row for the address when there is none
pinUpdate_Inserts(row, t, pinned) ==
    IF row.present
    THEN [row EXCEPT !.boosted = t, !.amount = @ + 1, !.totalAmount = @ + 1,
                     !.pinnedUntil = pinned]
    ELSE [present |-> TRUE, chainId |-> "solana", amount |-> 1, totalAmount |-> 1,
          pinnedUntil |-> pinned, boosted |-> t, dateAdded |-> t]

\* lines 529-547: UPDATE tokens SET boosted, amount+1, totalAmount+1, pinnedUntil WHERE
\* tokenAddress; no row matches when the address is not in the store
pinUpdate(row, t, pinned) ==
    IF row.present
    THEN [row EXCEPT !.boosted = t, !.amount = @ + 1, !.totalAmount = @ + 1,
                     !.pinnedUntil = pinned]
    ELSE row

(***************************************************************************)
(* The payment pollers: server.ts:79-119 (kind "server") and               *)
(* processPayments of index.ts (kind "index").  setInterval does not wait  *)
(* for the previous callback, so several cycles can be in flight.          *)
(***************************************************************************)
Order(c) == Head(cyc[c].queue)

\* the for loop moves to the next order; after the last one the server cycle ends
\* and the index cycle goes on to checkAndExpirePins
NextOrder(cy) ==
    IF Len(cy.queue) > 1
    THEN [cy EXCEPT !.pc = "verify", !.queue = Tail(@)]
    ELSE IF cy.kind = "index"
         THEN [IdleCycle EXCEPT !.pc = "sweep", !.kind = "index"]
         ELSE IdleCycle

\* const pendingOrders = await getPendingOrders(), called at time t
startCycle(k, ords, t) ==
    LET q == getPendingOrders(ords, t)
    IN  IF q = <<>>
        THEN (IF k = "index" THEN [IdleCycle EXCEPT !.pc = "sweep", !.kind = k]
                             ELSE IdleCycle)
        ELSE [IdleCycle EXCEPT !.pc = "verify", !.kind = k, !.queue = q]

\* the callback of setInterval starts
PollStart(c, k) ==
    /\ cyc[c].pc = "idle"
    /\ \A d \in Cycles : d < c => cyc[d].pc # "idle"
    /\ cyc' = [cyc EXCEPT ![c] = startCycle(k, orders, now)]
    /\ UNCHANGED <<now, tokens, orders, balance, faults, pinCount, pinNotes, voteVars, huntVars, fanVars, pay, listing, sweep, keygen, post, timers, fetch, clean, ws>>

\* index.ts checks order.expiresAt < Date.now() first; then
\* const isPaid = await verifyPayment(order.paymentAddress, order.cost),
\* which answers false when the balance lookup fails; server.ts tests the expiry after it
PollVerify(c, lookupFails) ==
    /\ cyc[c].pc = "verify"
    /\ LET o == Order(c)
           expired == orders[o].expiresAt < now
           balanceOk == verifyPayment(balance[o], orders[o].cost)
           isPaid == balanceOk /\ ~lookupFails
       IN  /\ lookupFails => (faults < MaxFaults /\ balanceOk
                                /\ ~(cyc[c].kind = "index" /\ expired))
           /\ faults' = IF lookupFails THEN faults + 1 ELSE faults
           /\ cyc' = [cyc EXCEPT ![c] =
                IF cyc[c].kind = "index" /\ expired THEN [@ EXCEPT !.pc = "expire"]
                ELSE IF isPaid
                     THEN (IF canTokenBePinned THEN [@ EXCEPT !.pc = "setpaid", !.t = now]
                                               ELSE [@ EXCEPT !.pc = "refund"])
                ELSE IF cyc[c].kind = "server" /\ expired THEN [@ EXCEPT !.pc = "expire"]
                ELSE NextOrder(@)]
    /\ UNCHANGED <<now, tokens, orders, balance, pinCount, pinNotes, voteVars, huntVars, fanVars, pay, listing, sweep, keygen, post, timers, fetch, clean, ws>>

\* await updateOrderStatus(order.id, 'paid', Date.now()): the result is not looked at
PollSetPaid(c, ok) ==
    /\ cyc[c].pc = "setpaid"
    /\ ~ok => faults < MaxFaults
    /\ faults' = IF ok THEN faults ELSE faults + 1
    /\ orders' = IF ok THEN updateOrderStatus(orders, Order(c), "paid", cyc[c].t) ELSE orders
    /\ cyc' = [cyc EXCEPT ![c].pc = "pinread", ![c].t = 0]
    /\ UNCHANGED <<now, tokens, balance, pinCount, pinNotes, voteVars, huntVars, fanVars, pay, listing, sweep, keygen, post, timers, fetch, clean, ws>>

\* updateTokenPin, lines 470-481: const now = Date.now(); the row is read and the
\* new expiry computed from it
PollPinRead(c) ==
    /\ cyc[c].pc = "pinread"
    /\ LET o == Order(c)
           current == currentPinnedUntil(tokens[orders[o].tokenAddress])
       IN  cyc' = [cyc EXCEPT ![c].pc = "pinwrite", ![c].t = now, ![c].cur = current,
                       ![c].newPin = newPinnedUntil(current, now, orders[o].hours)]
    /\ UNCHANGED <<now, tokens, orders, balance, faults, pinCount, pinNotes, voteVars, huntVars, fanVars, pay, listing, sweep, keygen, post, timers, fetch, clean, ws>>

\* updateTokenPin, lines 491-579: the detail fetch, the pair lookup and the UPDATE;
\* every failure returns false before anything is written; the caller ignores the result
PinOutcomes == {"ok", "fetch_failed", "no_pair", "store_error"}
PollPinWrite(c, outcome) ==
    /\ cyc[c].pc = "pinwrite"
    /\ LET o == Order(c)
           a == orders[o].tokenAddress
           applied == outcome = "ok" /\ tokens[a].present
       IN  /\ outcome # "ok" => faults < MaxFaults
           /\ faults' = IF outcome = "ok" THEN faults ELSE faults + 1
           /\ tokens' = IF outcome = "ok"
                        THEN [tokens EXCEPT ![a] = pinUpdate(@, cyc[c].t, cyc[c].newPin)]
                        ELSE tokens
           /\ pinCount' = IF applied THEN [pinCount EXCEPT ![o] = @ + 1] ELSE pinCount
           /\ inbox' = IF applied THEN broadcast(conns, inbox, Event("BOOST_UPDATE", a))
                                   ELSE inbox
           /\ cyc' = [cyc EXCEPT ![c].pc = IF cyc[c].kind = "index" THEN "complete" ELSE "notify",
                                 ![c].t = 0, ![c].cur = 0, ![c].newPin = 0]
    /\ UNCHANGED <<now, orders, balance, pinNotes, voteVars, huntVars, conns, pay, listing, sweep, keygen, post, timers, fetch, clean, ws>>

\* index.ts: await updateOrderStatus(order.id, 'completed'), then broadcast PIN_UPDATE
PollComplete(c, ok) ==
    /\ cyc[c].pc = "complete"
    /\ ~ok => faults < MaxFaults
    /\ faults' = IF ok THEN faults ELSE faults + 1
    /\ orders' = IF ok THEN updateOrderStatus(orders, Order(c), "completed", NULL) ELSE orders
    /\ pinNotes' = [pinNotes EXCEPT ![Order(c)] = @ + 1]
    /\ inbox' = broadcast(conns, inbox, Event("PIN_UPDATE", orders[Order(c)].tokenAddress))
    /\ cyc' = [cyc EXCEPT ![c] = NextOrder(@)]
    /\ UNCHANGED <<now, tokens, balance, pinCount, voteVars, huntVars, conns, pay, listing, sweep, keygen, post, timers, fetch, clean, ws>>

\* server.ts:93-106: const tokens = await selectAllTokens(); if (tokens) broadcast PIN_UPDATE
PollNotify(c, ok) ==
    /\ cyc[c].pc = "notify"
    /\ ~ok => faults < MaxFaults
    /\ faults' = IF ok THEN faults ELSE faults + 1
    /\ pinNotes' = IF ok THEN [pinNotes EXCEPT ![Order(c)] = @ + 1] ELSE pinNotes
    /\ LET sent == pinLoop(conns, inbox, Event("PIN_UPDATE", orders[Order(c)].tokenAddress))
       IN  /\ inbox' = IF ok THEN sent.inbox ELSE inbox
           \* an exception of client.send is caught at line 116: the tick is over
           /\ cyc' = [cyc EXCEPT ![c] = IF ok /\ sent.threw THEN IdleCycle ELSE NextOrder(@)]
    /\ UNCHANGED <<now, tokens, orders, balance, pinCount, voteVars, huntVars, conns, pay, listing, sweep, keygen, post, timers, fetch, clean, ws>>

\* await updateOrderStatus(order.id, 'expired')
PollExpire(c, ok) ==
    /\ cyc[c].pc = "expire"
    /\ ~ok => faults < MaxFaults
    /\ faults' = IF ok THEN faults ELSE faults + 1
    /\ orders' = IF ok THEN updateOrderStatus(orders, Order(c), "expired", NULL) ELSE orders
    /\ cyc' = [cyc EXCEPT ![c] = NextOrder(@)]
    /\ UNCHANGED <<now, tokens, balance, pinCount, pinNotes, voteVars, huntVars, fanVars, pay, listing, sweep, keygen, post, timers, fetch, clean, ws>>

\* index.ts: await checkAndExpirePins() after the loop
PollSweep(c, ok) ==
    /\ cyc[c].pc = "sweep"
    /\ ~ok => faults < MaxFaults
    /\ faults' = IF ok THEN faults ELSE faults + 1
    /\ orders' = IF ok THEN checkAndExpirePins(orders, now) ELSE orders
    /\ cyc' = [cyc EXCEPT ![c] = IdleCycle]
    /\ UNCHANGED <<now, tokens, balance, pinCount, pinNotes, voteVars, huntVars, fanVars, pay, listing, sweep, keygen, post, timers, fetch, clean, ws>>

PollStep(c) ==
    \/ \E k \in Kinds : PollStart(c, k)
    \/ \E f \in BOOLEAN : PollVerify(c, f)
    \/ \E ok \in BOOLEAN : PollSetPaid(c, ok)
    \/ PollPinRead(c)
    \/ \E out \in PinOutcomes : PollPinWrite(c, out)
    \/ \E ok \in BOOLEAN : PollComplete(c, ok)
    \/ \E ok \in BOOLEAN : PollNotify(c, ok)
    \/ \E ok \in BOOLEAN : PollExpire(c, ok)
    \/ \E ok \in BOOLEAN : PollSweep(c, ok)

(***************************************************************************)
(* The pin order workflow: orders are created, funds arrive, time passes   *)
(* and the pollers run.  A token row either exists (never pinned yet) or   *)
(* does not.                                                               *)
(***************************************************************************)
Idle == \A c \in Cycles : cyc[c].pc = "idle"
Confirmed(o) == orders[o].status \in {"paid", "completed"}
\* cycle c performs the step that leaves pc p
Leaves(c, p) == cyc[c].pc = p /\ cyc'[c].pc # p

\* the chain the feed reports for each token
ChainOf(a) ==
    CASE a = " DPUMP " -> "SOLANA"
      [] a = "Epump" -> "base"
      [] OTHER -> "solana"

FreshRow(total, t) ==
    [present |-> TRUE, chainId |-> "solana", amount |-> total, totalAmount |-> total,
     pinnedUntil |-> NULL,
     boosted |-> t, dateAdded |-> t]

InitPin ==
    /\ now = StartTime
    /\ \E r \in {NoRow, FreshRow(1, StartTime)} :
            tokens = [a \in Addresses |-> IF a \in PinAddresses THEN r ELSE NoRow]
    /\ orders = <<>>
    /\ balance = [o \in OrderIds |-> 0]
    /\ cyc = [c \in Cycles |-> IdleCycle]
    /\ faults = 0
    /\ pinCount = [o \in OrderIds |-> 0]
    /\ pinNotes = [o \in OrderIds |-> 0]
    /\ votes = <<>>
    /\ req = [r \in Reqs |-> IdleReq]
    /\ feed = [a \in Addresses |-> NotListed]
    /\ hunt = IdleHunt
    /\ ups = IdleUpsert
    /\ conns = [i \in Conns |-> "none"]
    /\ inbox = [i \in Conns |-> <<>>]
    /\ pay = NoPayment
    /\ listing = NoListing
    /\ sweep = IdleSweep
    /\ keygen = 0
    /\ post = NoReply
    /\ timers = <<0>>
    /\ fetch = NoFetch
    /\ clean = IdleClean
    /\ ws = MountedWs

NextPin ==
    \/ Tick
    \/ \E a \in PinAddresses, h \in Hours, cost \in Costs : CreatePinOrder(a, h, cost)
    \/ \E o \in OrderIds, d \in Deposits : Deposit(o, d)
    \/ \E c \in Cycles : PollStep(c)

SpecPin == InitPin /\ [][NextPin]_vars

(***************************************************************************)
(* The vote store (db.ts) and POST /api/vote (server.ts:133-161).          *)
(***************************************************************************)
HasVote(vs, a, u) == \E i \in 1 .. Len(vs) : vs[i].tokenAddress = a /\ vs[i].userId = u

\* db.ts:342-356: SELECT vote FROM votes WHERE tokenAddress = ? AND userId = ?;
\* null (NULL) when there is no row
getUserVote(vs, a, u) ==
    IF HasVote(vs, a, u)
    THEN (CHOOSE row \in {vs[i] : i \in 1 .. Len(vs)} :
                row.tokenAddress = a /\ row.userId = u).vote
    ELSE NULL

\* db.ts:278-299: the two COUNT(*) queries
getTokenVotes(vs, a) ==
    [upvotes |-> Cardinality({i \in 1 .. Len(vs) : vs[i].tokenAddress = a /\ vs[i].vote = 1}),
     downvotes |-> Cardinality({i \in 1 .. Len(vs) : vs[i].tokenAddress = a /\ vs[i].vote = 0 - 1})]

\* an INSERT into a table without the unique constraint
insertVote_NoUnique(vs, row) == [ok |-> TRUE, votes |-> Append(vs, row)]

\* db.ts:307-311 under UNIQUE(tokenAddress, userId) of db.ts:58: the INSERT throws
\* when the pair has a row
insertVote(vs, row) ==
    IF HasVote(vs, row.tokenAddress, row.userId)
    THEN [ok |-> FALSE, votes |-> vs]
    ELSE [ok |-> TRUE, votes |-> Append(vs, row)]

\* db.ts:314-319: UPDATE votes SET vote = ?, timestamp = ? WHERE tokenAddress = ? AND userId = ?
updateVote(vs, row) ==
    [i \in 1 .. Len(vs) |->
        IF vs[i].tokenAddress = row.tokenAddress /\ vs[i].userId = row.userId
        THEN [vs[i] EXCEPT !.vote = row.vote, !.timestamp = row.timestamp]
        ELSE vs[i]]

VoteRow(r, t) ==
    [tokenAddress |-> req[r].tokenAddress, userId |-> req[r].userId, vote |-> req[r].vote,
     timestamp |-> t]

\* server.ts:137-141: the request arrives and its body is validated; 0 stands for a
\* vote that is neither 1 nor -1
VoteInputs == {1, 0 - 1, 0}
VoteRequest(r, a, u, v) ==
    /\ req[r].pc = "idle"
    /\ InboxRoom
    /\ \A q \in Reqs : q < r => req[q].pc # "idle"
    /\ req' = [req EXCEPT ![r] =
            IF v \notin {1, 0 - 1}
            THEN [IdleReq EXCEPT !.pc = "done", !.resp = "invalid"]
            ELSE [IdleReq EXCEPT !.pc = "check", !.tokenAddress = a, !.userId = u,
                                 !.vote = v]]
    /\ UNCHANGED <<now, tokens, faults, pinVars, votes, huntVars, fanVars, pay, listing, sweep, keygen, post, timers, fetch, clean, ws>>

\* server.ts:145-148: const existingVote = await getUserVote(...), null on a store error
VoteCheck(r, ok) ==
    /\ req[r].pc = "check"
    /\ ~ok => faults < MaxFaults
    /\ faults' = IF ok THEN faults ELSE faults + 1
    /\ LET existingVote == IF ok THEN getUserVote(votes, req[r].tokenAddress, req[r].userId)
                                 ELSE NULL
       IN  req' = [req EXCEPT ![r] =
                IF existingVote # NULL THEN [@ EXCEPT !.pc = "done", !.resp = "rejected"]
                                       ELSE [@ EXCEPT !.pc = "insert"]]
    /\ UNCHANGED <<now, tokens, pinVars, votes, huntVars, fanVars, pay, listing, sweep, keygen, post, timers, fetch, clean, ws>>

\* upsertVote, db.ts:306-312: first try to insert
VoteInsert(r) ==
    /\ req[r].pc = "insert"
    /\ LET res == insertVote(votes, VoteRow(r, now))
       IN  /\ votes' = res.votes
           /\ req' = [req EXCEPT ![r].pc = IF res.ok THEN "respond" ELSE "update",
                                 ![r].wrote = res.ok]
    /\ UNCHANGED <<now, tokens, faults, pinVars, huntVars, fanVars, pay, listing, sweep, keygen, post, timers, fetch, clean, ws>>

\* upsertVote, db.ts:312-320: the insert failed, update instead
VoteUpdate(r, ok) ==
    /\ req[r].pc = "update"
    /\ ~ok => faults < MaxFaults
    /\ faults' = IF ok THEN faults ELSE faults + 1
    /\ votes' = IF ok THEN updateVote(votes, VoteRow(r, now)) ELSE votes
    /\ req' = [req EXCEPT ![r] =
            IF ok THEN [@ EXCEPT !.pc = "respond"]
                  ELSE [@ EXCEPT !.pc = "done", !.resp = "failed"]]
    /\ UNCHANGED <<now, tokens, pinVars, huntVars, fanVars, pay, listing, sweep, keygen, post, timers, fetch, clean, ws>>

\* db.ts:323-332 and server.ts:151-153: the counts are read, VOTE_UPDATE is broadcast
\* and the counts are the reply
VoteRespond(r) ==
    /\ req[r].pc = "respond"
    /\ req' = [req EXCEPT ![r].pc = "done", ![r].resp = "ok"]
    /\ inbox' = broadcast(conns, inbox, Event("VOTE_UPDATE", req[r].tokenAddress))
    /\ UNCHANGED <<now, tokens, faults, pinVars, votes, huntVars, conns, pay, listing, sweep, keygen, post, timers, fetch, clean, ws>>

\* the reply is sent; the slot serves the next request
VoteDone(r) ==
    /\ req[r].pc = "done"
    /\ req' = [req EXCEPT ![r] = IdleReq]
    /\ UNCHANGED <<now, tokens, faults, pinVars, votes, huntVars, fanVars, pay, listing, sweep, keygen, post, timers, fetch, clean, ws>>

NextVote ==
    \/ Tick
    \/ \E r \in Reqs, a \in VoteAddresses, u \in Users, v \in VoteInputs : VoteRequest(r, a, u, v)
    \/ \E r \in Reqs, ok \in BOOLEAN : VoteCheck(r, ok)
    \/ \E r \in Reqs : VoteInsert(r)
    \/ \E r \in Reqs, ok \in BOOLEAN : VoteUpdate(r, ok)
    \/ \E r \in Reqs : VoteRespond(r)
    \/ \E r \in Reqs : VoteDone(r)

InitVote ==
    /\ now = StartTime
    /\ tokens = [a \in Addresses |-> FreshRow(1, StartTime)]
    /\ orders = <<>>
    /\ balance = [o \in OrderIds |-> 0]
    /\ cyc = [c \in Cycles |-> IdleCycle]
    /\ faults = 0
    /\ pinCount = [o \in OrderIds |-> 0]
    /\ pinNotes = [o \in OrderIds |-> 0]
    /\ votes = <<>>
    /\ req = [r \in Reqs |-> IdleReq]
    /\ feed = [a \in Addresses |-> NotListed]
    /\ hunt = IdleHunt
    /\ ups = IdleUpsert
    /\ conns = [i \in Conns |-> "none"]
    /\ inbox = [i \in Conns |-> <<>>]
    /\ pay = NoPayment
    /\ listing = NoListing
    /\ sweep = IdleSweep
    /\ keygen = 0
    /\ post = NoReply
    /\ timers = <<0>>
    /\ fetch = NoFetch
    /\ clean = IdleClean
    /\ ws = MountedWs

SpecVote == InitVote /\ [][NextVote]_vars

(***************************************************************************)
(* Claims about votes, checked under SpecVote.                             *)
(***************************************************************************)
\* C7: a request for a pair that already has a stored vote (stored by another
\* request) never changes the vote store and never ends with the success reply,
\* also when no store call fails.
C7_SecondVoteRejected ==
    [][\A r \in Reqs :
            (/\ faults' = 0
             /\ req'[r] # req[r]
             /\ req[r].pc \notin {"idle", "done"}
             /\ ~req[r].wrote
             /\ HasVote(votes, req[r].tokenAddress, req[r].userId))
                => (votes' = votes /\ req'[r].resp # "ok")]_vars

\* witness of C7, the sequential case: a request that arrives when the pair has a stored vote
\* is rejected at the getUserVote check.
C7_Witness_Rejected ==
    \E r \in Reqs : req[r].resp = "rejected"

\* C8: the vote store holds at most one row for every (tokenAddress, userId) pair.
C8_OneRowPerPair ==
    \A i, j \in 1 .. Len(votes) :
        (votes[i].tokenAddress = votes[j].tokenAddress /\ votes[i].userId = votes[j].userId)
            => i = j

\* witness of C8: an INSERT for a pair that has a row was attempted and refused by the
\* unique constraint, and the request went on to the UPDATE
C8_Witness_InsertRefused ==
    \E r \in Reqs :
        /\ req[r].pc = "respond" /\ ~req[r].wrote
        /\ HasVote(votes, req[r].tokenAddress, req[r].userId)

(***************************************************************************)
(* The token store: upsertTokenBoost (db.ts:137-226).  One call is in      *)
(* flight at a time: the reconciliation loop is its only caller and awaits *)
(* each call.                                                              *)
(***************************************************************************)
\* an upsert that stamps the row with the time of the call on every write
upsertRow_ResetsDate(row, token, recordAdded, dateAdded) ==
    IF row.present
    THEN [row EXCEPT !.chainId = token.chainId, !.amount = token.amount, !.totalAmount = token.totalAmount,
                     !.boosted = recordAdded, !.dateAdded = recordAdded]
    ELSE [present |-> TRUE, chainId |-> token.chainId, amount |-> token.amount, totalAmount |-> token.totalAmount,
          pinnedUntil |-> NULL, boosted |-> recordAdded, dateAdded |-> dateAdded]

\* an upsert that stores the size of the last batch as the running total
upsertRow_StoresAmount(row, token, recordAdded, dateAdded) ==
    IF row.present
    THEN [row EXCEPT !.chainId = token.chainId, !.amount = token.amount, !.totalAmount = token.amount,
                     !.boosted = recordAdded,
                     !.dateAdded = IF row.dateAdded # NULL THEN row.dateAdded ELSE dateAdded]
    ELSE [present |-> TRUE, chainId |-> token.chainId, amount |-> token.amount, totalAmount |-> token.amount,
          pinnedUntil |-> NULL, boosted |-> recordAdded, dateAdded |-> dateAdded]

\* an upsert that replaces the whole row, as INSERT OR REPLACE does
upsertRow_ClearsPin(row, token, recordAdded, dateAdded) ==
    [present |-> TRUE, chainId |-> token.chainId, amount |-> token.amount, totalAmount |-> token.totalAmount,
     pinnedUntil |-> NULL, boosted |-> recordAdded,
     dateAdded |-> IF row.present /\ row.dateAdded # NULL THEN row.dateAdded ELSE dateAdded]

\* lines 146-201: INSERT ... ON CONFLICT(tokenAddress) DO UPDATE SET ...; pinnedUntil
\* is not among the columns, dateAdded keeps the stored value when there is one
upsertRow(row, token, recordAdded, dateAdded) ==
    IF row.present
    THEN [row EXCEPT !.chainId = token.chainId, !.amount = token.amount, !.totalAmount = token.totalAmount,
                     !.boosted = recordAdded,
                     !.dateAdded = IF row.dateAdded # NULL THEN row.dateAdded ELSE dateAdded]
    ELSE [present |-> TRUE, chainId |-> token.chainId, amount |-> token.amount, totalAmount |-> token.totalAmount,
          pinnedUntil |-> NULL, boosted |-> recordAdded, dateAdded |-> dateAdded]

\* an upsert that announces every write as a new token
upsertEventType_AlwaysNew(existingToken) == "NEW_TOKEN"

\* line 212: type: existingToken ? 'update' : 'NEW_TOKEN'
upsertEventType(existingToken) == IF existingToken.present THEN "update" ELSE "NEW_TOKEN"

\* the call: const recordAdded = Date.now() (line 139)
UpsertBegin(caller, a, token) ==
    [IdleUpsert EXCEPT !.pc = "read", !.caller = caller, !.address = a, !.token = token,
                       !.recordAdded = now]

\* line 143: const existingToken = await db.get('SELECT tokenAddress, dateAdded ...')
UpsertRead ==
    /\ ups.pc = "read"
    /\ ups' = [ups EXCEPT !.pc = "write", !.existing = tokens[ups.address]]
    /\ UNCHANGED <<now, tokens, faults, pinVars, voteVars, feed, hunt, fanVars, pay, listing, sweep, keygen, post, timers, fetch, clean, ws>>

\* lines 144-225: the INSERT ... ON CONFLICT; a store error is caught and answered false
UpsertWrite(ok) ==
    /\ ups.pc = "write"
    /\ ~ok => faults < MaxFaults
    /\ faults' = IF ok THEN faults ELSE faults + 1
    /\ LET dateAdded == IF ups.existing.present THEN ups.existing.dateAdded
                                                ELSE ups.recordAdded
       IN  tokens' = IF ok
                     THEN [tokens EXCEPT ![ups.address] =
                                upsertRow(@, ups.token, ups.recordAdded, dateAdded)]
                     ELSE tokens
    /\ inbox' = IF ok
                THEN broadcast(conns, inbox, Event(upsertEventType(ups.existing), ups.address))
                ELSE inbox
    /\ ups' = [ups EXCEPT !.pc = "done", !.result = ok]
    /\ UNCHANGED <<now, pinVars, voteVars, feed, hunt, conns, pay, listing, sweep, keygen, post, timers, fetch, clean, ws>>

(***************************************************************************)
(* The boosts feed and direct upserts of what it reports.                  *)
(***************************************************************************)
\* the feed reports k more boosts for an address: its totalAmount never decreases
FeedBoost(a, k) ==
    /\ feed[a].totalAmount + k <= MaxTotal
    /\ feed' = [feed EXCEPT ![a] = [amount |-> k, totalAmount |-> @.totalAmount + k]]
    /\ UNCHANGED <<now, tokens, faults, pinVars, voteVars, hunt, ups, fanVars, pay, listing, sweep, keygen, post, timers, fetch, clean, ws>>

\* upsertTokenBoost is called with the record the feed reports for the address
UpsertCall(a) ==
    /\ ups.pc = "idle"
    /\ InboxRoom
    /\ feed[a].totalAmount > 0
    /\ ups' = UpsertBegin("direct", a, [chainId |-> ChainOf(a), amount |-> feed[a].amount,
                                      totalAmount |-> feed[a].totalAmount])
    /\ UNCHANGED <<now, tokens, faults, pinVars, voteVars, feed, hunt, fanVars, pay, listing, sweep, keygen, post, timers, fetch, clean, ws>>

UpsertReturn ==
    /\ ups.pc = "done"
    /\ ups.caller = "direct"
    /\ ups' = IdleUpsert
    /\ UNCHANGED <<now, tokens, faults, pinVars, voteVars, feed, hunt, fanVars, pay, listing, sweep, keygen, post, timers, fetch, clean, ws>>

InitStore ==
    /\ now = StartTime
    /\ tokens = [a \in Addresses |-> NoRow]
    /\ orders = <<>>
    /\ balance = [o \in OrderIds |-> 0]
    /\ cyc = [c \in Cycles |-> IdleCycle]
    /\ faults = 0
    /\ pinCount = [o \in OrderIds |-> 0]
    /\ pinNotes = [o \in OrderIds |-> 0]
    /\ votes = <<>>
    /\ req = [r \in Reqs |-> IdleReq]
    /\ feed = [a \in Addresses |-> NotListed]
    /\ hunt = IdleHunt
    /\ ups = IdleUpsert
    /\ conns = [i \in Conns |-> "none"]
    /\ inbox = [i \in Conns |-> <<>>]
    /\ pay = NoPayment
    /\ listing = NoListing
    /\ sweep = IdleSweep
    /\ keygen = 0
    /\ post = NoReply
    /\ timers = <<0>>
    /\ fetch = NoFetch
    /\ clean = IdleClean
    /\ ws = MountedWs

NextUpsert ==
    \/ Tick
    \/ \E a \in Addresses, k \in {1, 2} : FeedBoost(a, k)
    \/ \E a \in Addresses : UpsertCall(a)
    \/ UpsertRead
    \/ \E ok \in BOOLEAN : UpsertWrite(ok)
    \/ UpsertReturn

SpecUpsert == InitStore /\ [][NextUpsert]_vars

\* C10: over upserts whose totalAmount inputs for an address never decrease, the
\* stored totalAmount of the address never decreases.
C10_UpsertMonotonic ==
    [][\A a \in Addresses :
            (tokens[a].present /\ tokens'[a].present)
                => tokens'[a].totalAmount >= tokens[a].totalAmount]_vars

\* witness of C10: a row was written again by a later upsert, with a larger total
C10_Witness_Updated ==
    \E a \in Addresses :
        /\ tokens[a].present
        /\ tokens[a].boosted > tokens[a].dateAdded
        /\ tokens[a].totalAmount > tokens[a].amount

\* the stored row is what an upsert of this record leaves
AppliedOnce(row, token) ==
    row.present /\ row.amount = token.amount /\ row.totalAmount = token.totalAmount

\* C12: a successful upsert of a record that an earlier upsert already applied to the
\* row leaves the stored row identical, its dateAdded included.
C12_UpsertIdempotent ==
    [][(ups.pc = "write" /\ ups'.pc = "done" /\ ups'.result
            /\ AppliedOnce(tokens[ups.address], ups.token))
                => tokens'[ups.address] = tokens[ups.address]]_vars

\* witness of C12: the same record was applied a second time
C12_Witness_AppliedTwice ==
    /\ ups.pc = "done" /\ ups.result /\ ups.existing.present
    /\ AppliedOnce(tokens[ups.address], ups.token)
    /\ tokens[ups.address].dateAdded = ups.existing.dateAdded
    /\ tokens[ups.address].boosted > tokens[ups.address].dateAdded

(***************************************************************************)
(* The reconciliation loop: startHunter.main (hunter.ts:68-319), one tick  *)
(* at a time (the next is scheduled when the tick has ended), beside the   *)
(* payment poller of server.ts.                                            *)
(***************************************************************************)
\* db.ts:239-259; false when there is no row or the store fails
selectTokenBoostAmounts(row, ok) ==
    IF ok /\ row.present
    THEN [found |-> TRUE, amount |-> OrZero(row.amount), amountTotal |-> OrZero(row.totalAmount)]
    ELSE [found |-> FALSE, amount |-> 0, amountTotal |-> 0]

\* the boosts endpoint lists every boosted address, in a fixed order
Listed(fd, as) == SelectSeq(as, LAMBDA a : a \in DOMAIN fd /\ fd[a].totalAmount > 0)
FeedOrder == <<"Apump", "Bpump", " DPUMP ", "pumpE", "Epump">>
FeedEvent(fd, a) == [tokenAddress |-> a, chainId |-> ChainOf(a), amount |-> fd[a].amount,
                     totalAmount |-> fd[a].totalAmount]
FeedData(fd) == [i \in 1 .. Len(Listed(fd, FeedOrder)) |-> FeedEvent(fd, Listed(fd, FeedOrder)[i])]

\* part_003:23: hunter_timeout: 5000
HunterTimeout == 5000

\* a loop that sets the timer of the next tick while the tick is still at work
schedule_Early(ts, ended) == IF ts = <<>> THEN <<HunterTimeout>> ELSE ts

\* a loop that ends without setting the timer of the next tick
schedule_Never(ts, ended) == ts

\* lines 316-317, behind the try/catch of main: setTimeout(main, config.settings.hunter_timeout)
\* once the tick has ended
schedule(ts, ended) == IF ended THEN Append(ts, HunterTimeout) ELSE ts

\* a loop whose tick is over once a token is done with
HuntAdvance_EndsTick(h) == IdleHunt

\* the for loop of line 115 moves to the next token, or the tick ends (line 312)
HuntAdvance(h) ==
    IF Len(h.batch) > 1
    THEN [pc |-> "select", batch |-> Tail(h.batch), skipped |-> h.skipped,
          passed |-> h.passed, filtered |-> h.filtered]
    ELSE IdleHunt

\* history: the catch of line 305 (or a continue after a failed fetch) ended this token
HuntSkip(h) == HuntAdvance([h EXCEPT !.skipped = @ \cup {Head(h.batch).tokenAddress}])

\* the strings of the model, character by character
Chars(str) ==
    CASE str = "Apump" -> <<"A", "p", "u", "m", "p">>
      [] str = "Bpump" -> <<"B", "p", "u", "m", "p">>
      [] str = " DPUMP " -> <<" ", "D", "P", "U", "M", "P", " ">>
      [] str = "pumpE" -> <<"p", "u", "m", "p", "E">>
      [] str = "Epump" -> <<"E", "p", "u", "m", "p">>
      [] str = "pump" -> <<"p", "u", "m", "p">>
      [] str = "solana" -> <<"s", "o", "l", "a", "n", "a">>
      [] str = "SOLANA" -> <<"S", "O", "L", "A", "N", "A">>
      [] str = "base" -> <<"b", "a", "s", "e">>

\* String.prototype.toLowerCase on the letters of the model
LowerChar(c) ==
    CASE c = "A" -> "a" [] c = "B" -> "b" [] c = "D" -> "d" [] c = "E" -> "e"
      [] c = "L" -> "l" [] c = "M" -> "m" [] c = "N" -> "n" [] c = "O" -> "o"
      [] c = "P" -> "p" [] c = "S" -> "s" [] c = "U" -> "u" [] OTHER -> c
toLowerCase(cs) == [i \in 1 .. Len(cs) |-> LowerChar(cs[i])]

\* String.prototype.trim: white space is removed from both ends
RECURSIVE trimStart(_)
trimStart(cs) == IF cs # <<>> /\ Head(cs) = " " THEN trimStart(Tail(cs)) ELSE cs
RECURSIVE trimEnd(_)
trimEnd(cs) ==
    IF cs # <<>> /\ cs[Len(cs)] = " " THEN trimEnd(SubSeq(cs, 1, Len(cs) - 1)) ELSE cs
trim(cs) == trimEnd(trimStart(cs))

\* String.prototype.endsWith
endsWith(cs, suffix) ==
    /\ Len(cs) >= Len(suffix)
    /\ SubSeq(cs, Len(cs) - Len(suffix) + 1, Len(cs)) = suffix

\* part_003:21: chains_to_track: ["solana"]
ChainsToTrack == {"solana"}
\* line 95: const chains = config.settings.chains_to_track
chains == {Chars(c) : c \in ChainsToTrack}

\* line 118: chains.includes(token.chainId.toLowerCase())
chainTracked(chainId) == toLowerCase(Chars(chainId)) \in chains

\* an address filter that looks for "pump" anywhere in the address
isPumpFun_Includes(tokenAddress) ==
    LET cs == toLowerCase(trim(Chars(tokenAddress)))
    IN  \E i \in 1 .. Len(cs) - 3 : SubSeq(cs, i, i + 3) = Chars("pump")

\* line 124: token.tokenAddress.trim().toLowerCase().endsWith("pump")
isPumpFun(tokenAddress) == endsWith(toLowerCase(trim(Chars(tokenAddress))), Chars("pump"))

\* history: line 120 or line 126 left this token out
HuntFilter(h) == HuntAdvance([h EXCEPT !.filtered = @ \cup {Head(h.batch).tokenAddress}])

\* history: the test of line 133 found nothing new for this token
HuntPass(h) == HuntAdvance([h EXCEPT !.passed = @ \cup {Head(h.batch).tokenAddress}])

\* lines 102-112: const data = await getEndpointData(endpointUrl)
HuntFetch ==
    /\ hunt.pc = "idle"
    /\ timers # <<>>
    /\ InboxRoom
    /\ ups.pc = "idle"
    /\ FeedData(feed) # <<>>
    /\ hunt' = [pc |-> "select", batch |-> FeedData(feed), skipped |-> {}, passed |-> {},
                filtered |-> {}]
    /\ timers' = Tail(timers)
    /\ UNCHANGED <<now, tokens, faults, pinVars, voteVars, feed, ups, fanVars, pay, listing, sweep, keygen, post, fetch, clean, ws>>

\* a tick without a token to work on: getEndpointData answered false (lines 106-109),
\* the list was empty, or an exception reached the catch of line 313
FetchOutcomes == {"failed", "empty", "throws"}
HuntFetchNothing(outcome) ==
    /\ hunt.pc = "idle"
    /\ timers # <<>>
    /\ ups.pc = "idle"
    /\ outcome = "empty" => FeedData(feed) = <<>>
    /\ outcome # "empty" => faults < MaxFaults
    /\ faults' = IF outcome = "empty" THEN faults ELSE faults + 1
    /\ timers' = schedule(Tail(timers), TRUE)
    /\ UNCHANGED <<now, tokens, pinVars, voteVars, huntVars, fanVars, pay, listing, sweep, keygen, post, fetch, clean, ws>>

\* lines 117-133: the chain filter, the address filter, and for a token that passed
\* both the lookup of the stored amounts (ok: the store answers) and the change
\* detection on the stored totalAmount
HuntSelect(ok) ==
    /\ hunt.pc = "select"
    /\ LET token == Head(hunt.batch)
           returnedAmounts == selectTokenBoostAmounts(tokens[token.tokenAddress], ok)
       IN  IF ~chainTracked(token.chainId) \/ ~isPumpFun(token.tokenAddress)
           THEN /\ ok
                /\ faults' = faults
                /\ hunt' = HuntFilter(hunt)
           ELSE /\ ~ok => faults < MaxFaults
                /\ faults' = IF ok THEN faults ELSE faults + 1
                /\ hunt' = IF \/ ~returnedAmounts.found
                              \/ returnedAmounts.amountTotal # token.totalAmount
                           THEN [hunt EXCEPT !.pc = "detail"]
                           ELSE HuntPass(hunt)
    /\ timers' = schedule(timers, hunt'.pc = "idle")
    /\ UNCHANGED <<now, tokens, pinVars, voteVars, feed, ups, fanVars, pay, listing, sweep, keygen, post, fetch, clean, ws>>

\* a tick that stores what it has when the detail fetch gives no pair
HuntDetail_WritesPartial(found) ==
    /\ hunt.pc = "detail"
    /\ LET token == Head(hunt.batch)
       IN  IF found
           THEN /\ hunt' = [hunt EXCEPT !.pc = "upsert"]
                /\ ups' = UpsertBegin("hunter", token.tokenAddress,
                                      [chainId |-> token.chainId, amount |-> OrZero(token.amount),
                                       totalAmount |-> OrZero(token.totalAmount)])
                /\ tokens' = tokens
           ELSE /\ hunt' = HuntSkip(hunt)
                /\ ups' = ups
                /\ tokens' = [tokens EXCEPT ![token.tokenAddress] =
                                upsertRow(@, [chainId |-> token.chainId, amount |-> OrZero(token.amount),
                                              totalAmount |-> OrZero(token.totalAmount)],
                                          now, now)]
    /\ timers' = schedule(timers, hunt'.pc = "idle")
    /\ UNCHANGED <<now, faults, pinVars, voteVars, feed, fanVars, pay, listing, sweep, keygen, post, fetch, clean, ws>>

\* lines 145-219: the detail fetch, the record built from it and the call of upsertTokenBoost
HuntDetail(found) ==
    /\ hunt.pc = "detail"
    /\ LET token == Head(hunt.batch)
       IN  IF found
           THEN /\ hunt' = [hunt EXCEPT !.pc = "upsert"]
                /\ ups' = UpsertBegin("hunter", token.tokenAddress,
                                      [chainId |-> token.chainId, amount |-> OrZero(token.amount),
                                       totalAmount |-> OrZero(token.totalAmount)])
           ELSE /\ hunt' = HuntSkip(hunt)
                /\ ups' = ups
    /\ timers' = schedule(timers, hunt'.pc = "idle")
    /\ UNCHANGED <<now, tokens, faults, pinVars, voteVars, feed, fanVars, pay, listing, sweep, keygen, post, fetch, clean, ws>>

\* lines 219-306: upsertTokenBoost has answered; the loop goes on
HuntResume ==
    /\ hunt.pc = "upsert"
    /\ ups.pc = "done"
    /\ ups.caller = "hunter"
    /\ ups' = IdleUpsert
    /\ hunt' = IF ups.result THEN HuntAdvance(hunt) ELSE HuntSkip(hunt)
    /\ timers' = schedule(timers, hunt'.pc = "idle")
    /\ UNCHANGED <<now, tokens, faults, pinVars, voteVars, feed, fanVars, pay, listing, sweep, keygen, post, fetch, clean, ws>>

\* the tick of the poller of server.ts that runs beside the loop
BoostCycles == {1}
NextBoost ==
    \/ \E a \in Addresses, k \in {1, 2} : FeedBoost(a, k)
    \/ HuntFetch
    \/ \E ok \in BOOLEAN : HuntSelect(ok)
    \/ \E found \in BOOLEAN : HuntDetail(found)
    \/ UpsertRead
    \/ \E ok \in BOOLEAN : UpsertWrite(ok)
    \/ HuntResume
    \/ \E a \in PinAddresses, h \in Hours, cost \in Costs \ {0} : CreatePinOrder(a, h, cost)
    \/ \E o \in OrderIds, d \in Deposits : Deposit(o, d)
    \/ \E c \in BoostCycles : PollStart(c, "server")
    \/ \E c \in BoostCycles, f \in BOOLEAN : PollVerify(c, f)
    \/ \E c \in BoostCycles, ok \in BOOLEAN : PollSetPaid(c, ok)
    \/ \E c \in BoostCycles : PollPinRead(c)
    \/ \E c \in BoostCycles, out \in PinOutcomes : PollPinWrite(c, out)
    \/ \E c \in BoostCycles, ok \in BOOLEAN : PollNotify(c, ok)

SpecBoost == InitStore /\ [][NextBoost]_vars

\* C9: while the feed reports a non-decreasing totalAmount for an address, the stored
\* totalAmount of the address never decreases over reconciliation ticks and pin payments.
C9_TotalAmountMonotonic ==
    [][\A a \in Addresses :
            (tokens[a].present /\ tokens'[a].present /\ faults' = 0)
                => tokens'[a].totalAmount >= tokens[a].totalAmount]_vars

(***************************************************************************)
(* One token row over time: upserts of what the feed reports and pin       *)
(* payments for the same address, with the clock advancing.                *)
(***************************************************************************)
NextRow ==
    \/ Tick
    \/ \E a \in PinAddresses, k \in {1, 2} : FeedBoost(a, k)
    \/ \E a \in PinAddresses : UpsertCall(a)
    \/ UpsertRead
    \/ \E ok \in BOOLEAN : UpsertWrite(ok)
    \/ UpsertReturn
    \/ \E a \in PinAddresses, h \in Hours, cost \in Costs \ {0} : CreatePinOrder(a, h, cost)
    \/ \E o \in OrderIds, d \in Deposits : Deposit(o, d)
    \/ \E c \in BoostCycles : PollStart(c, "server")
    \/ \E c \in BoostCycles, f \in BOOLEAN : PollVerify(c, f)
    \/ \E c \in BoostCycles, ok \in BOOLEAN : PollSetPaid(c, ok)
    \/ \E c \in BoostCycles : PollPinRead(c)
    \/ \E c \in BoostCycles, out \in PinOutcomes : PollPinWrite(c, out)
    \/ \E c \in BoostCycles, ok \in BOOLEAN : PollNotify(c, ok)
    \/ \E c \in BoostCycles, ok \in BOOLEAN : PollExpire(c, ok)

SpecRow == InitStore /\ [][NextRow]_vars

\* C11: while a token row exists its dateAdded does not change, whatever upsert or
\* pin application writes the row, and the insert that creates the row stores the
\* time of that upsert call.
C11_DateAddedFixed ==
    [][\A a \in Addresses :
            /\ (tokens[a].present /\ tokens'[a].present)
                    => tokens'[a].dateAdded = tokens[a].dateAdded
            /\ (~tokens[a].present /\ tokens'[a].present)
                    => tokens'[a].dateAdded = ups.recordAdded]_vars

\* witness of C11: a row that was pinned and then written again by a later upsert
C11_Witness_PinnedAndUpserted ==
    \E a \in Addresses :
        /\ tokens[a].present
        /\ tokens[a].pinnedUntil # NULL
        /\ tokens[a].boosted > tokens[a].dateAdded
        /\ ups.pc = "done" /\ ups.result /\ ups.address = a /\ ups.existing.present
        /\ tokens[a].amount = ups.token.amount
        /\ tokens[a].totalAmount = ups.token.totalAmount

\* C28: the write of upsertTokenBoost stores the supplied amounts and leaves the
\* pinnedUntil of every stored row as it is, and the pinnedUntil of a stored row
\* changes only in the UPDATE of updateTokenPin.
C28_PinnedUntilKept ==
    [][/\ (ups.pc = "write" /\ ups'.pc = "done")
            => /\ \A a \in Addresses :
                    tokens[a].present
                        => /\ tokens'[a].present
                           /\ tokens'[a].pinnedUntil = tokens[a].pinnedUntil
               /\ ups'.result
                    => /\ tokens'[ups.address].amount = ups.token.amount
                       /\ tokens'[ups.address].totalAmount = ups.token.totalAmount
       /\ \A a \in Addresses :
            (/\ tokens[a].present /\ tokens'[a].present
             /\ tokens'[a].pinnedUntil # tokens[a].pinnedUntil)
                => \E c \in Cycles : cyc[c].pc = "pinwrite" /\ cyc'[c].pc # "pinwrite"]_vars

\* witness of C28: an upsert has just overwritten the amounts of an actively pinned row
C28_Witness_PinnedRowUpserted ==
    \E a \in Addresses :
        /\ tokens[a].present
        /\ tokens[a].pinnedUntil # NULL /\ tokens[a].pinnedUntil > now
        /\ ups.pc = "done" /\ ups.result /\ ups.address = a
        /\ ups.existing.present /\ ups.existing.pinnedUntil = tokens[a].pinnedUntil
        /\ tokens[a].boosted = ups.recordAdded
        /\ tokens[a].totalAmount # ups.existing.totalAmount

(***************************************************************************)
(* The pin notifications and the subscribers: one tick of either poller at *)
(* a time, while connections open, break and close.                        *)
(***************************************************************************)
NextFanout ==
    \/ \E i \in Conns : Connect(i)
    \/ \E i \in Conns : Break(i)
    \/ \E i \in Conns : Close(i)
    \/ \E i \in Conns : Drop(i)
    \/ \E a \in PinAddresses, h \in Hours, cost \in Costs \ {0} : CreatePinOrder(a, h, cost)
    \/ \E o \in OrderIds, d \in Deposits : Deposit(o, d)
    \/ \E c \in BoostCycles, k \in Kinds : PollStart(c, k)
    \/ \E c \in BoostCycles, f \in BOOLEAN : PollVerify(c, f)
    \/ \E c \in BoostCycles, ok \in BOOLEAN : PollSetPaid(c, ok)
    \/ \E c \in BoostCycles : PollPinRead(c)
    \/ \E c \in BoostCycles, out \in PinOutcomes : PollPinWrite(c, out)
    \/ \E c \in BoostCycles, ok \in BOOLEAN : PollNotify(c, ok)
    \/ \E c \in BoostCycles, ok \in BOOLEAN : PollComplete(c, ok)
    \/ \E c \in BoostCycles, ok \in BOOLEAN : PollSweep(c, ok)

SpecFanout == InitPin /\ [][NextFanout]_vars

\* the poller of cycle c publishes the pin notification of its order in this step
PublishesPin(c) == faults' = faults /\ (Leaves(c, "notify") \/ Leaves(c, "complete"))

\* C13: when the poller publishes PIN_UPDATE, every connection that is open is sent
\* the event, whatever the state of the other connections, and the poller goes on
\* with its tick as if every send had succeeded.
C13_FanoutIsolated ==
    [][\A c \in Cycles :
            PublishesPin(c)
                => /\ \A i \in Conns :
                        conns[i] = "open"
                            => inbox'[i] = Append(inbox[i],
                                    Event("PIN_UPDATE", orders[Order(c)].tokenAddress))
                   /\ cyc'[c] = NextOrder(cyc[c])]_vars

\* witness of C13: an event went to an open connection while another one was not open
C13_Witness_SkipsClosed ==
    \E i, j \in Conns :
        /\ conns[i] = "open" /\ conns[j] = "closing"
        /\ Len(inbox[i]) > Len(inbox[j])
        /\ \E n \in 1 .. Len(inbox[i]) : inbox[i][n].type = "PIN_UPDATE"

(***************************************************************************)
(* verifyPayment in the arithmetic of the code (transactions.ts:34-53):    *)
(* the balance is an integer number of lamports, solBalance and the cost   *)
(* are IEEE 754 doubles.  Doubles are held exactly, as natural numbers of  *)
(* units of 2^-62 (the last place of the double 0.001), written as         *)
(* little-endian sequences of digits in base 10000.                        *)
(***************************************************************************)
Base == 10000
RECURSIVE BigOf(_)
BigOf(n) == IF n = 0 THEN <<>> ELSE <<n % Base>> \o BigOf(n \div Base)

\* x * k + c for a small k
RECURSIVE BigMulAdd(_, _, _)
BigMulAdd(x, k, c) ==
    IF x = <<>> THEN BigOf(c)
    ELSE <<(Head(x) * k + c) % Base>> \o BigMulAdd(Tail(x), k, (Head(x) * k + c) \div Base)

\* x * 2^n
RECURSIVE BigShift(_, _)
BigShift(x, n) ==
    IF n >= 13 THEN BigShift(BigMulAdd(x, 8192, 0), n - 13) ELSE BigMulAdd(x, 2 ^ n, 0)

\* without the zero digits at the top
RECURSIVE BigTrim(_)
BigTrim(x) ==
    IF x = <<>> THEN x
    ELSE IF x[Len(x)] = 0 THEN BigTrim(SubSeq(x, 1, Len(x) - 1)) ELSE x

\* quotient and remainder of x by a small d
RECURSIVE BigDivMod(_, _)
BigDivMod(x, d) ==
    IF x = <<>> THEN [q |-> <<>>, r |-> 0]
    ELSE LET top == BigDivMod(Tail(x), d)
             v == top.r * Base + Head(x)
         IN  [q |-> BigTrim(<<v \div d>> \o top.q), r |-> v % d]

RECURSIVE BigLess(_, _)
BigLess(x, y) ==
    IF Len(x) # Len(y) THEN Len(x) < Len(y)
    ELSE IF x = <<>> THEN FALSE
    ELSE IF x[Len(x)] # y[Len(y)] THEN x[Len(x)] < y[Len(y)]
    ELSE BigLess(SubSeq(x, 1, Len(x) - 1), SubSeq(y, 1, Len(y) - 1))

\* x - y for x >= y
RECURSIVE BigSub(_, _, _)
BigSub(x, y, borrow) ==
    IF x = <<>> THEN <<>>
    ELSE LET yd == IF y = <<>> THEN 0 ELSE Head(y)
             v == Head(x) - yd - borrow
         IN  <<IF v < 0 THEN v + Base ELSE v>>
                \o BigSub(Tail(x), IF y = <<>> THEN y ELSE Tail(y), IF v < 0 THEN 1 ELSE 0)
BigAbsDiff(x, y) == IF BigLess(x, y) THEN BigTrim(BigSub(y, x, 0)) ELSE BigTrim(BigSub(x, y, 0))

\* the binade of balance / 1e9: the quotient q * 2^-Scale(lamports) has 53 bits
RECURSIVE Scale(_)
Scale(lamports) ==
    IF lamports >= 2000000000 THEN 51
    ELSE IF lamports >= 1000000000 THEN 52
    ELSE Scale(2 * lamports) + 1

\* line 41: const solBalance = balance / 1e9, rounded to the nearest double (ties to
\* even), in units of 2^-62
solBalance(lamports) ==
    IF lamports = 0 THEN <<>>
    ELSE LET s == Scale(lamports)
             x == BigShift(BigOf(lamports), s)
             d1 == BigDivMod(x, 1000)
             d2 == BigDivMod(d1.q, 1000)
             d3 == BigDivMod(d2.q, 1000)
             rem == d3.r * 1000000 + d2.r * 1000 + d1.r
             odd == d3.q # <<>> /\ Head(d3.q) % 2 = 1
             up == rem > 500000000 \/ (rem = 500000000 /\ odd)
             m == IF up THEN BigMulAdd(d3.q, 1, 1) ELSE d3.q
         IN  BigTrim(BigShift(m, 62 - s))

\* a cost of h half SOL (0.5, 1, 1.5, 2 ... are doubles), in units of 2^-62
costDouble(h) == BigShift(BigOf(h), 61)

\* the double 0.001 is 4611686018427388 * 2^-62
Tolerance001 == <<7388, 1842, 6860, 4611>>

\* line 45: const isPaid = Math.abs(solBalance - expectedAmount) < 0.001; the
\* subtraction of two doubles this close is exact
isPaid(lamports, h) == BigLess(BigAbsDiff(solBalance(lamports), costDouble(h)), Tolerance001)

(***************************************************************************)
(* The pin notifications seen by one subscriber that stays connected,      *)
(* while a second connection comes and goes.                               *)
(***************************************************************************)
Subscriber == 1
Others == Conns \ {Subscriber}

InitNotify ==
    /\ now = StartTime
    /\ \E r \in {NoRow, FreshRow(1, StartTime)} :
            tokens = [a \in Addresses |-> IF a \in PinAddresses THEN r ELSE NoRow]
    /\ orders = <<>>
    /\ balance = [o \in OrderIds |-> 0]
    /\ cyc = [c \in Cycles |-> IdleCycle]
    /\ faults = 0
    /\ pinCount = [o \in OrderIds |-> 0]
    /\ pinNotes = [o \in OrderIds |-> 0]
    /\ votes = <<>>
    /\ req = [r \in Reqs |-> IdleReq]
    /\ feed = [a \in Addresses |-> NotListed]
    /\ hunt = IdleHunt
    /\ ups = IdleUpsert
    /\ conns = [i \in Conns |-> IF i = Subscriber THEN "open" ELSE "none"]
    /\ inbox = [i \in Conns |-> <<>>]
    /\ pay = NoPayment
    /\ listing = NoListing
    /\ sweep = IdleSweep
    /\ keygen = 0
    /\ post = NoReply
    /\ timers = <<0>>
    /\ fetch = NoFetch
    /\ clean = IdleClean
    /\ ws = MountedWs

NextNotify ==
    \/ \E i \in Others : Connect(i)
    \/ \E i \in Others : Break(i)
    \/ \E i \in Others : Close(i)
    \/ \E i \in Others : Drop(i)
    \/ \E a \in PinAddresses, h \in Hours, cost \in Costs \ {0} : CreatePinOrder(a, h, cost)
    \/ \E o \in OrderIds, d \in Deposits : Deposit(o, d)
    \/ \E c \in BoostCycles, k \in Kinds : PollStart(c, k)
    \/ \E c \in BoostCycles, f \in BOOLEAN : PollVerify(c, f)
    \/ \E c \in BoostCycles, ok \in BOOLEAN : PollSetPaid(c, ok)
    \/ \E c \in BoostCycles : PollPinRead(c)
    \/ \E c \in BoostCycles, out \in PinOutcomes : PollPinWrite(c, out)
    \/ \E c \in BoostCycles, ok \in BOOLEAN : PollNotify(c, ok)
    \/ \E c \in BoostCycles, ok \in BOOLEAN : PollComplete(c, ok)
    \/ \E c \in BoostCycles, ok \in BOOLEAN : PollSweep(c, ok)

SpecNotify == InitNotify /\ [][NextNotify]_vars

\* the number of pin notifications among the events
RECURSIVE PinEvents(_)
PinEvents(evs) ==
    IF evs = <<>> THEN 0
    ELSE (IF Head(evs).type \in {"PIN_UPDATE", "BOOST_UPDATE"} THEN 1 ELSE 0)
            + PinEvents(Tail(evs))

\* C16: when no tick is running, the subscriber that was connected throughout has
\* received exactly one pin notification (PIN_UPDATE / BOOST_UPDATE) for an order
\* confirmed as paid whose pin was applied, and none for an order whose pin was not
\* applied.
C16_NotifiedExactlyOnce ==
    (Idle /\ faults = 0)
        => \A o \in 1 .. Len(orders) :
                PinEvents(inbox[Subscriber]) = IF pinCount[o] > 0 THEN 1 ELSE 0

\* witness of C16: a paid order whose pin was applied and notified
C16_Witness_PinnedAndNotified ==
    /\ Idle
    /\ \E o \in 1 .. Len(orders) : Confirmed(o) /\ pinCount[o] = 1
    /\ PinEvents(inbox[Subscriber]) > 0

(***************************************************************************)
(* Upserts of what the feed reports, seen by the subscribers.              *)
(***************************************************************************)
NextNews ==
    \/ \E i \in Others : Connect(i)
    \/ \E i \in Others : Break(i)
    \/ \E i \in Others : Close(i)
    \/ \E i \in Others : Drop(i)
    \/ \E a \in PinAddresses, k \in {1, 2} : FeedBoost(a, k)
    \/ \E a \in PinAddresses : UpsertCall(a)
    \/ UpsertRead
    \/ \E ok \in BOOLEAN : UpsertWrite(ok)
    \/ UpsertReturn

SpecNews == InitNotify /\ [][NextNews]_vars

\* C17: an upsert that succeeds sends exactly one event to every open connection,
\* NEW_TOKEN when no row was stored for the address before the write and update
\* otherwise, and nothing to the others; an upsert that fails sends nothing, writes
\* nothing and answers false.
C17_UpsertEvent ==
    [][(ups.pc = "write" /\ ups'.pc = "done")
            => LET a == ups.address
                   type == IF tokens[a].present THEN "update" ELSE "NEW_TOKEN"
               IN  IF ups'.result
                   THEN \A i \in Conns :
                            inbox'[i] = IF conns[i] = "open"
                                        THEN Append(inbox[i], Event(type, a))
                                        ELSE inbox[i]
                   ELSE inbox' = inbox /\ tokens' = tokens]_vars

\* witness of C17: the subscriber saw a token announced and then updated
C17_Witness_NewThenUpdate ==
    \E a \in Addresses :
        /\ Len(inbox[Subscriber]) >= 2
        /\ inbox[Subscriber][1] = Event("NEW_TOKEN", a)
        /\ inbox[Subscriber][2] = Event("update", a)

(***************************************************************************)
(* The reconciliation loop on its own, seen by a connected subscriber.     *)
(***************************************************************************)
NextHunt ==
    \/ \E a \in Addresses, k \in {1, 2} : FeedBoost(a, k)
    \/ HuntFetch
    \/ \E ok \in BOOLEAN : HuntSelect(ok)
    \/ \E found \in BOOLEAN : HuntDetail(found)
    \/ UpsertRead
    \/ \E ok \in BOOLEAN : UpsertWrite(ok)
    \/ HuntResume

SpecHunt == InitNotify /\ [][NextHunt]_vars

\* the change test of the spec: no row is stored or the stored totalAmount differs
Changed(row, token) == ~row.present \/ OrZero(row.totalAmount) # token.totalAmount

\* C18: the tick goes on to the detail fetch (and from there to the upsert and the
\* broadcast) for an event if and only if no row is stored for its address or the stored
\* totalAmount differs from the event's; otherwise it passes the event over with no
\* detail fetch, no store write and no broadcast.
C18_ChangeDetection ==
    [][(hunt.pc = "select" /\ hunt' # hunt)
            => LET token == Head(hunt.batch)
               IN  IF Changed(tokens[token.tokenAddress], token)
                   THEN hunt'.pc = "detail"
                   ELSE /\ hunt' = HuntPass(hunt)
                        /\ tokens' = tokens /\ ups' = ups /\ inbox' = inbox]_vars

\* witness of C18: an event whose totalAmount is the stored one was passed over
C18_Witness_PassedOver ==
    /\ hunt.pc = "select"
    /\ hunt.passed # {}
    /\ faults = 0
    /\ inbox[Subscriber] = <<>>

C19_BatchNeverAborted ==
    [][(hunt.pc # "idle" /\ hunt'.batch # hunt.batch)
            => /\ hunt'.batch = Tail(hunt.batch)
               /\ hunt'.batch # <<>> => hunt'.pc = "select"]_vars

\* witness of C19: a token of the batch is being processed after an earlier one failed
C19_Witness_GoesOnAfterFailure ==
    /\ hunt.pc \in {"detail", "upsert"}
    /\ hunt.skipped # {}

\* 1e9 lamports are one SOL; costs are counted in half SOL
LamportsPerHalfSol == 500000000
\* 0.001 SOL in lamports
ToleranceLamports == 1000000
HalfSols == {1, 2, 4}
Deltas == {0 - 1000001, 0 - 1000000, 0 - 999999, 0 - 500000, 0 - 1, 0, 1, 500000, 999999,
           1000000, 1000001}

\* verifyPayment(paymentAddress, expectedAmount) is called; the wallet holds the cost
\* plus d lamports
PaymentCall(h, d, fails) ==
    /\ pay.pc \in {"idle", "done"}
    /\ pay' = [pc |-> "call", lamports |-> h * LamportsPerHalfSol + d, halfSols |-> h,
               lookupFails |-> fails, result |-> FALSE]
    /\ UNCHANGED <<now, tokens, faults, pinVars, voteVars, huntVars, fanVars, listing, sweep, keygen, post, timers, fetch, clean, ws>>

\* lines 39-52: the balance lookup, the comparison, and false when the lookup throws
PaymentAnswer ==
    /\ pay.pc = "call"
    /\ pay' = [pay EXCEPT !.pc = "done",
                          !.result = ~pay.lookupFails /\ isPaid(pay.lamports, pay.halfSols)]
    /\ UNCHANGED <<now, tokens, faults, pinVars, voteVars, huntVars, fanVars, listing, sweep, keygen, post, timers, fetch, clean, ws>>

NextPay ==
    \/ \E h \in HalfSols, d \in Deltas, fails \in BOOLEAN : PaymentCall(h, d, fails)
    \/ PaymentAnswer

SpecPay == InitStore /\ [][NextPay]_vars

\* C15: verifyPayment answers true exactly when the balance lookup succeeded and the
\* balance differs from the cost by less than 0.001 SOL.
C15_PaidIffWithinTolerance ==
    pay.pc = "done"
        => (pay.result <=>
                (/\ ~pay.lookupFails
                 /\ Abs(pay.lamports - pay.halfSols * LamportsPerHalfSol) < ToleranceLamports))

\* witness of C15: a balance of 0.5005 against a cost of 0.5 was judged paid
C15_Witness_HalfPaid ==
    /\ pay.pc = "done" /\ pay.result
    /\ pay.halfSols = 1 /\ pay.lamports = LamportsPerHalfSol + 500000

(***************************************************************************)
(* getEndpointData on the boosts endpoint (hunter.ts:17-54).               *)
(***************************************************************************)
\* JSON values as the code sees them: a string, a number, null, or undefined for a
\* property that is missing
Str(x) == [t |-> "string", s |-> x, n |-> 0]
Num(x) == [t |-> "number", s |-> "", n |-> x]
JsonNull == [t |-> "null", s |-> "", n |-> 0]
Undefined == [t |-> "undefined", s |-> "", n |-> 0]

\* JavaScript's truthiness
Truthy(v) ==
    \/ v.t = "string" /\ v.s # ""
    \/ v.t = "number" /\ v.n # 0

\* the elements a response may hold: objects with or without the four properties,
\* the value null and a bare number
Objects ==
    [t : {"object"},
     tokenAddress : {Str("Apump"), Str(""), Undefined},
     chainId : {Str("solana"), Undefined},
     amount : {Num(0), Num(1), Str("1"), Undefined},
     totalAmount : {Num(1), Str("1")}]
Elements == Objects \cup {JsonNull, Num(7)}

\* token.tokenAddress on an element: a TypeError on null, undefined on a primitive
ReadsThrow(e) == e.t = "null"
Prop(e, name) ==
    IF e.t # "object" THEN Undefined
    ELSE CASE name = "tokenAddress" -> e.tokenAddress
           [] name = "chainId" -> e.chainId
           [] name = "amount" -> e.amount
           [] name = "totalAmount" -> e.totalAmount

\* lines 37-42: the predicate of the filter
IsValidToken(e) ==
    /\ Truthy(Prop(e, "tokenAddress"))
    /\ Truthy(Prop(e, "chainId"))
    /\ Prop(e, "amount").t = "number"
    /\ Prop(e, "totalAmount").t = "number"

\* what axios.get gives: an error, a timeout, or a body that is empty, an object or a list
ListsUpTo(n) == UNION {[1 .. k -> Elements] : k \in 0 .. n}
Responses ==
    {[kind |-> k, data |-> <<>>] : k \in {"error", "timeout", "empty", "object"}}
        \cup {[kind |-> "list", data |-> d] : d \in ListsUpTo(MaxList)}

False == [kind |-> "false", data |-> <<>>]

\* lines 17-54 for a URL of the boosts endpoint: false when axios.get throws (line 50),
\* when there is no body (line 24) and when the body is no array (line 31); the filter
\* of lines 37-42 throws on an element that is null, and the catch of line 50 answers
\* false then as well
getEndpointData(response) ==
    IF response.kind # "list" THEN False
    ELSE IF \E i \in 1 .. Len(response.data) : ReadsThrow(response.data[i]) THEN False
    ELSE [kind |-> "list", data |-> SelectSeq(response.data, IsValidToken)]

\* the call, and the response of the endpoint
FetchCall(response) ==
    /\ fetch.pc = "idle"
    /\ fetch' = [NoFetch EXCEPT !.pc = "call", !.response = response]
    /\ UNCHANGED <<now, tokens, faults, pinVars, voteVars, huntVars, fanVars, pay, listing, sweep, keygen, post, timers, clean, ws>>

\* the answer
FetchAnswer ==
    /\ fetch.pc = "call"
    /\ fetch' = [fetch EXCEPT !.pc = "done", !.answer = getEndpointData(fetch.response)]
    /\ UNCHANGED <<now, tokens, faults, pinVars, voteVars, huntVars, fanVars, pay, listing, sweep, keygen, post, timers, clean, ws>>

NextFetch ==
    \/ \E response \in Responses : FetchCall(response)
    \/ FetchAnswer

SpecFetch == InitStore /\ [][NextFetch]_vars

\* an element with a non-empty tokenAddress, a chainId and numeric amount and totalAmount
WellFormed(e) ==
    /\ e.t = "object"
    /\ e.tokenAddress.t = "string" /\ e.tokenAddress.s # ""
    /\ e.chainId # Undefined
    /\ e.amount.t = "number"
    /\ e.totalAmount.t = "number"

\* C29: for a list the answer is the list of its well-formed elements, in order, the
\* others dropped; for an error, a timeout and a body that is no list it is false.
C29_DropsInvalidOnly ==
    fetch.pc = "done"
        => IF fetch.response.kind = "list"
           THEN fetch.answer = [kind |-> "list",
                                data |-> SelectSeq(fetch.response.data, WellFormed)]
           ELSE fetch.answer = False

\* witness of C29: of two elements the malformed one was dropped and the other returned
C29_Witness_OneDropped ==
    /\ fetch.pc = "done"
    /\ Len(fetch.response.data) = 2
    /\ fetch.answer.kind = "list" /\ Len(fetch.answer.data) = 1
    /\ fetch.answer.data[1] = fetch.response.data[2]

(***************************************************************************)
(* Reconciliation of a feed that also lists tokens of other chains and     *)
(* addresses that are no pump addresses.                                   *)
(***************************************************************************)
FeedAddresses == {"Apump", "Bpump", " DPUMP ", "pumpE", "Epump"}

InitFilter ==
    /\ now = StartTime
    /\ tokens = [a \in FeedAddresses |-> NoRow]
    /\ orders = <<>>
    /\ balance = [o \in OrderIds |-> 0]
    /\ cyc = [c \in Cycles |-> IdleCycle]
    /\ faults = 0
    /\ pinCount = [o \in OrderIds |-> 0]
    /\ pinNotes = [o \in OrderIds |-> 0]
    /\ votes = <<>>
    /\ req = [r \in Reqs |-> IdleReq]
    /\ feed = [a \in FeedAddresses |-> NotListed]
    /\ hunt = IdleHunt
    /\ ups = IdleUpsert
    /\ conns = [i \in Conns |-> IF i = Subscriber THEN "open" ELSE "none"]
    /\ inbox = [i \in Conns |-> <<>>]
    /\ pay = NoPayment
    /\ listing = NoListing
    /\ sweep = IdleSweep
    /\ keygen = 0
    /\ post = NoReply
    /\ timers = <<0>>
    /\ fetch = NoFetch
    /\ clean = IdleClean
    /\ ws = MountedWs

NextFilter ==
    \/ \E a \in FeedAddresses \ {"Apump"} : FeedBoost(a, 2)
    \/ HuntFetch
    \/ \E ok \in BOOLEAN : HuntSelect(ok)
    \/ \E found \in BOOLEAN : HuntDetail(found)
    \/ UpsertRead
    \/ \E ok \in BOOLEAN : UpsertWrite(ok)
    \/ HuntResume

SpecFilter == InitFilter /\ [][NextFilter]_vars

\* the events the filters are meant to let through: a tracked chain, whatever the
\* case of its name, and an address that ends in "pump" once trimmed and lowercased
TrackedChains == {"solana", "SOLANA"}
PumpAddresses == {"Apump", "Bpump", " DPUMP ", "Epump"}
Eligible(token) == token.chainId \in TrackedChains /\ token.tokenAddress \in PumpAddresses

\* C30 as stated: every row reconciliation writes has a chainId that is one of the
\* tracked chains and an address that ends in "pump" (trimmed, case-insensitive), and
\* an event that fails either filter is left out with no store lookup, no detail
\* fetch, no write and no broadcast.
C30_RowsOfTrackedChains ==
    [][/\ \A a \in FeedAddresses :
            tokens'[a] # tokens[a]
                => tokens'[a].chainId \in ChainsToTrack /\ a \in PumpAddresses
       /\ (hunt.pc = "select" /\ hunt' # hunt /\ ~Eligible(Head(hunt.batch)))
            => /\ hunt' = HuntFilter(hunt)
               /\ faults' = faults
               /\ tokens' = tokens /\ ups' = ups /\ inbox' = inbox]_vars

\* C30, amended: every row reconciliation writes, and every event it sends, is for a
\* boost event whose chainId is the name of a tracked chain in any case of letters and
\* whose address ends in "pump" (trimmed, case-insensitive), and the row keeps the
\* chainId as the feed spelled it; an event that fails either filter is left out with
\* no store lookup, no detail fetch, no write and no broadcast.
C30_OnlyEligibleWritten ==
    [][/\ (tokens' # tokens \/ inbox' # inbox)
            => /\ hunt.pc = "upsert"
               /\ Eligible(Head(hunt.batch))
               /\ ups.address = Head(hunt.batch).tokenAddress
               /\ tokens'[ups.address].chainId = Head(hunt.batch).chainId
               /\ \A a \in FeedAddresses \ {ups.address} : tokens'[a] = tokens[a]
       /\ (hunt.pc = "select" /\ hunt' # hunt /\ ~Eligible(Head(hunt.batch)))
            => /\ hunt' = HuntFilter(hunt)
               /\ faults' = faults
               /\ tokens' = tokens /\ ups' = ups /\ inbox' = inbox]_vars

\* witness of C30: in one tick the address with capitals and blanks was written, and
\* the address with "pump" inside and the token of another chain were left out
C30_Witness_FilteredAndWritten ==
    /\ hunt.pc = "select"
    /\ hunt.filtered = {"pumpE"}
    /\ Head(hunt.batch).tokenAddress = "Epump"
    /\ tokens[" DPUMP "].present
    /\ tokens[" DPUMP "].chainId = "SOLANA"
    /\ ~tokens["pumpE"].present
    /\ inbox[Subscriber] # <<>>

(***************************************************************************)
(* The reconciliation loop over many ticks, failed ones included.          *)
(***************************************************************************)
NextLoop ==
    \/ \E a \in Addresses, k \in {1, 2} : FeedBoost(a, k)
    \/ HuntFetch
    \/ \E outcome \in FetchOutcomes : HuntFetchNothing(outcome)
    \/ \E ok \in BOOLEAN : HuntSelect(ok)
    \/ \E found \in BOOLEAN : HuntDetail(found)
    \/ UpsertRead
    \/ \E ok \in BOOLEAN : UpsertWrite(ok)
    \/ HuntResume

SpecLoop == InitPin /\ [][NextLoop]_vars

\* C25: while a tick is at work no call of main is pending, and never more than one
\* is: the next tick is scheduled only when the current one has ended.
C25_OneTickAtATime ==
    /\ Len(timers) <= 1
    /\ hunt.pc # "idle" => timers = <<>>

\* witness of C25: a later tick is at work, after one that wrote a token
C25_Witness_LaterTick ==
    /\ hunt.pc = "select"
    /\ timers = <<>>
    /\ tokens["Bpump"].present

NextCreate ==
    \/ Tick
    \/ \E a \in Addresses, h \in Hours, cost \in Costs \ {0}, ok \in BOOLEAN :
            PostPinOrder(a, h, cost, ok)

SpecCreate == InitPin /\ [][NextCreate]_vars

\* C22: a call of createPinOrder that succeeds appends one order with status pending,
\* expiresAt = createdAt + 30 minutes and a payment address no earlier order has, and
\* the reply carries the id, the payment address and expiresAt of that order; no
\* call, failed or not, changes an order that existed before.
C22_NewOrderOnly ==
    [][keygen' # keygen
            => /\ SubSeq(orders', 1, Len(orders)) = orders
               /\ faults' # faults => orders' = orders
               /\ faults' = faults =>
                    LET id == Len(orders) + 1
                        new == orders'[id]
                    IN  /\ Len(orders') = id
                        /\ new.status = "pending"
                        /\ new.createdAt = now
                        /\ new.expiresAt = new.createdAt + 30 * 60 * 1000
                        /\ \A i \in 1 .. Len(orders) :
                                orders[i].paymentAddress # new.paymentAddress
                        /\ post' = [status |-> 200, id |-> id,
                                    paymentAddress |-> new.paymentAddress,
                                    expiresAt |-> new.expiresAt]]_vars

\* witness of C22: a third order was created, later than the first, after a call failed
C22_Witness_ThirdOrder ==
    /\ Len(orders) = 3
    /\ post.status = 200 /\ post.id = 3
    /\ orders[3].createdAt > orders[1].createdAt
    /\ faults = 1

(***************************************************************************)
(* The retention sweep deleteOldTokens (db.ts:682-724).                    *)
(***************************************************************************)
\* db.ts:685: 24 * 60 * 60 * 1000
DayMs == 24 * 60 * 60 * 1000
\* the time of the sweeps of the model: old rows exist by then
SweepTime == StartTime + DayMs + TickMs

\* WHERE boosted < ? (db.ts:689, 695)
OldTokens(tks, cutoff) == {a \in Addresses : tks[a].present /\ tks[a].boosted < cutoff}

\* the orders in which a SELECT may list the addresses of S
Listings(S) ==
    {q \in [1 .. Cardinality(S) -> S] :
        \A i, j \in 1 .. Cardinality(S) : i < j => q[i] # q[j]}

\* db.ts:694-697: DELETE FROM tokens WHERE boosted < ?
deleteTokens(tks, cutoff) ==
    [a \in Addresses |-> IF a \in OldTokens(tks, cutoff) THEN NoRow ELSE tks[a]]

\* db.ts:700-702: DELETE FROM votes WHERE tokenAddress NOT IN (SELECT tokenAddress FROM tokens)
deleteVotes(vs, tks) == SelectSeq(vs, LAMBDA v : tks[v.tokenAddress].present)

\* db.ts:705-714: one TOKEN_DELETED event for every selected token, in order
RECURSIVE broadcastDeleted(_, _, _)
broadcastDeleted(cs, ib, q) ==
    IF q = <<>> THEN ib
    ELSE broadcastDeleted(cs, broadcast(cs, ib, Event("TOKEN_DELETED", Head(q))), Tail(q))

\* db.ts:683-685: the call; const twentyFourHoursAgo = Date.now() - DayMs
SweepBegin ==
    /\ sweep.pc = "idle"
    /\ sweep' = [IdleSweep EXCEPT !.pc = "select", !.cutoff = now - DayMs]
    /\ UNCHANGED <<now, tokens, faults, pinVars, voteVars, huntVars, fanVars, pay, listing, keygen, post, timers, fetch, clean, ws>>

\* db.ts:688-691: the SELECT of the tokens to announce; a failure ends the call in the
\* catch of line 719
SweepSelect(ok) ==
    /\ sweep.pc = "select"
    /\ ~ok => faults < MaxFaults
    /\ faults' = IF ok THEN faults ELSE faults + 1
    /\ IF ok
       THEN \E q \in Listings(OldTokens(tokens, sweep.cutoff)) :
                sweep' = [sweep EXCEPT !.pc = "delete", !.tokensToDelete = q]
       ELSE sweep' = IdleSweep
    /\ UNCHANGED <<now, tokens, pinVars, voteVars, huntVars, fanVars, pay, listing, keygen, post, timers, fetch, clean, ws>>

\* db.ts:694-697: the DELETE on tokens
SweepDelete(ok) ==
    /\ sweep.pc = "delete"
    /\ ~ok => faults < MaxFaults
    /\ faults' = IF ok THEN faults ELSE faults + 1
    /\ tokens' = IF ok THEN deleteTokens(tokens, sweep.cutoff) ELSE tokens
    /\ sweep' = IF ok THEN [sweep EXCEPT !.pc = "votes",
                                         !.deleted = OldTokens(tokens, sweep.cutoff)]
                      ELSE IdleSweep
    /\ UNCHANGED <<now, pinVars, voteVars, huntVars, fanVars, pay, listing, keygen, post, timers, fetch, clean, ws>>

\* db.ts:700-702: the DELETE on votes
SweepVotes(ok) ==
    /\ sweep.pc = "votes"
    /\ ~ok => faults < MaxFaults
    /\ faults' = IF ok THEN faults ELSE faults + 1
    /\ votes' = IF ok THEN deleteVotes(votes, tokens) ELSE votes
    /\ sweep' = IF ok
                THEN [sweep EXCEPT !.pc = "notify",
                                   !.votesGone = {votes[i].tokenAddress : i \in 1 .. Len(votes)}
                                        \ {votes'[i].tokenAddress : i \in 1 .. Len(votes')}]
                ELSE IdleSweep
    /\ UNCHANGED <<now, tokens, pinVars, req, huntVars, fanVars, pay, listing, keygen, post, timers, fetch, clean, ws>>

\* db.ts:705-722: the TOKEN_DELETED events, and the call returns
SweepNotify ==
    /\ sweep.pc = "notify"
    /\ inbox' = broadcastDeleted(conns, inbox, sweep.tokensToDelete)
    /\ sweep' = IdleSweep
    /\ UNCHANGED <<now, tokens, faults, pinVars, voteVars, huntVars, conns, pay, listing, keygen, post, timers, fetch, clean, ws>>

\* rows of every age are stored when the sweeps of the model run: older than a day,
\* exactly a day old, and new
InitSweep ==
    /\ now = SweepTime
    /\ tokens \in [Addresses -> {NoRow, FreshRow(1, StartTime), FreshRow(1, SweepTime - DayMs),
                                 FreshRow(1, SweepTime)}]
    /\ orders = <<>>
    /\ balance = [o \in OrderIds |-> 0]
    /\ cyc = [c \in Cycles |-> IdleCycle]
    /\ faults = 0
    /\ pinCount = [o \in OrderIds |-> 0]
    /\ pinNotes = [o \in OrderIds |-> 0]
    /\ votes = <<>>
    /\ req = [r \in Reqs |-> IdleReq]
    /\ feed = [a \in Addresses |-> NotListed]
    /\ hunt = IdleHunt
    /\ ups = IdleUpsert
    /\ conns = [i \in Conns |-> "none"]
    /\ inbox = [i \in Conns |-> <<>>]
    /\ pay = NoPayment
    /\ listing = NoListing
    /\ sweep = IdleSweep
    /\ keygen = 0
    /\ post = NoReply
    /\ timers = <<0>>
    /\ fetch = NoFetch
    /\ clean = IdleClean
    /\ ws = MountedWs

NextSweep ==
    \/ \E r \in Reqs, a \in Addresses : VoteRequest(r, a, "u1", 1)
    \/ \E r \in Reqs, ok \in BOOLEAN : VoteCheck(r, ok)
    \/ \E r \in Reqs : VoteInsert(r)
    \/ \E r \in Reqs, ok \in BOOLEAN : VoteUpdate(r, ok)
    \/ \E r \in Reqs : VoteRespond(r)
    \/ \E r \in Reqs : VoteDone(r)
    \/ SweepBegin
    \/ \E ok \in BOOLEAN : SweepSelect(ok)
    \/ \E ok \in BOOLEAN : SweepDelete(ok)
    \/ \E ok \in BOOLEAN : SweepVotes(ok)
    \/ SweepNotify

SpecSweep == InitSweep /\ [][NextSweep]_vars

\* C21: the DELETE on tokens removes exactly the rows whose boosted is older than
\* now - 24h and changes no other row, and when the sweep leaves its DELETE on votes
\* exactly the votes of the removed tokens are gone and every other vote is as it was.
C21_SweepRemovesOldOnly ==
    [][IF sweep.pc = "votes" /\ sweep' # sweep
       THEN votes' = SelectSeq(votes, LAMBDA v : v.tokenAddress \notin sweep.deleted)
       ELSE tokens' # tokens
                => tokens' = [a \in Addresses |->
                        IF tokens[a].present /\ tokens[a].boosted < now - DayMs
                        THEN NoRow ELSE tokens[a]]]_vars

\* witness of C21: a sweep removed an old token and its vote and kept another token
\* with its vote
C21_Witness_SweptWithVotes ==
    /\ sweep.pc = "notify"
    /\ sweep.deleted # {}
    /\ sweep.votesGone = sweep.deleted
    /\ \E i \in 1 .. Len(votes) : tokens[votes[i].tokenAddress].present

(***************************************************************************)
(* GET /api/tokens (server.ts:122-130) and selectAllTokens (db.ts:125-136). *)
(***************************************************************************)
Stored(tks) == {a \in Addresses : tks[a].present}

\* one row of SELECT * FROM tokens
RowOf(tks, a) ==
    [tokenAddress |-> a, amount |-> tks[a].amount, totalAmount |-> tks[a].totalAmount,
     pinnedUntil |-> tks[a].pinnedUntil, boosted |-> tks[a].boosted,
     dateAdded |-> tks[a].dateAdded]

\* db.ts:128: SELECT * FROM tokens ORDER BY boosted DESC; the results the statement
\* may give: SQL leaves the order of rows with equal boosted open
selectAllTokens(tks) ==
    LET n == Cardinality(Stored(tks))
        orders_ == {q \in [1 .. n -> Stored(tks)] :
                        \A i, j \in 1 .. n :
                            i < j => q[i] # q[j] /\ tks[q[i]].boosted >= tks[q[j]].boosted}
    IN  {[i \in 1 .. n |-> RowOf(tks, q[i])] : q \in orders_}

ListOutcomes == {"ok", "null", "error"}

\* server.ts:123-129: the handler. db.all throwing makes selectAllTokens return null,
\* which is sent as the body (db.ts:130-132); getDb throwing reaches the handler's
\* catch, which answers 500
GetTokens(outcome) ==
    /\ outcome # "ok" => faults < MaxFaults
    /\ faults' = IF outcome = "ok" THEN faults ELSE faults + 1
    /\ IF outcome = "ok"
       THEN \E rows \in selectAllTokens(tokens) :
                listing' = [status |-> "ok", rows |-> rows, at |-> now]
       ELSE listing' = [status |-> outcome, rows |-> <<>>, at |-> now]
    /\ UNCHANGED <<now, tokens, pinVars, voteVars, huntVars, fanVars, pay, sweep, keygen, post, timers, fetch, clean, ws>>

NextList ==
    \/ Tick
    \/ \E a \in Addresses \ PinAddresses : FeedBoost(a, 1)
    \/ \E a \in Addresses \ PinAddresses : UpsertCall(a)
    \/ UpsertRead
    \/ \E ok \in BOOLEAN : UpsertWrite(ok)
    \/ UpsertReturn
    \/ \E a \in PinAddresses, cost \in Costs \ {0} : CreatePinOrder(a, 1, cost)
    \/ \E o \in OrderIds, d \in Deposits : Deposit(o, d)
    \/ \E c \in BoostCycles : PollStart(c, "server")
    \/ \E c \in BoostCycles, f \in BOOLEAN : PollVerify(c, f)
    \/ \E c \in BoostCycles, ok \in BOOLEAN : PollSetPaid(c, ok)
    \/ \E c \in BoostCycles : PollPinRead(c)
    \/ \E c \in BoostCycles, out \in PinOutcomes : PollPinWrite(c, out)
    \/ \E c \in BoostCycles, ok \in BOOLEAN : PollNotify(c, ok)
    \/ \E outcome \in ListOutcomes : GetTokens(outcome)

SpecList == InitPin /\ [][NextList]_vars

\* a row whose pin is running at time t (TokenTable.tsx:253: a.pinnedUntil > now)
ActivelyPinned(row, t) == row.pinnedUntil # NULL /\ row.pinnedUntil > t

\* C20: a successful GET /api/tokens returns every stored token record once, the
\* actively pinned ones before the others and, within each of the two groups, in the
\* order of the sort key (boosted, latest first).
C20_ListedByPinThenKey ==
    [][(listing' # listing /\ listing'.status = "ok")
            => LET rows == listing'.rows
                   n == Len(rows)
               IN  /\ n = Cardinality(Stored(tokens))
                   /\ \A a \in Stored(tokens) :
                        \E i \in 1 .. n : rows[i] = RowOf(tokens, a)
                   /\ \A i, j \in 1 .. n :
                        i < j => /\ ActivelyPinned(rows[j], now)
                                        => ActivelyPinned(rows[i], now)
                                 /\ ActivelyPinned(rows[i], now) = ActivelyPinned(rows[j], now)
                                        => rows[i].boosted >= rows[j].boosted]_vars

\* witness of C20: a listing of two rows, one of them actively pinned when it was sent
C20_Witness_PinnedListed ==
    /\ listing.status = "ok"
    /\ Len(listing.rows) = 2
    /\ \E i \in 1 .. 2 : ActivelyPinned(listing.rows[i], listing.at)
    /\ \E i \in 1 .. 2 : ~ActivelyPinned(listing.rows[i], listing.at)

(***************************************************************************)
(* Claims about the pin order workflow, checked under SpecPin.             *)
(***************************************************************************)

\* C1: the pin effect (the UPDATE of updateTokenPin on the token row) is performed
\* at most once for every order, over any interleaving of poll cycles, also when no
\* call of a cycle fails.
C1_PinAtMostOnce == faults = 0 => \A o \in OrderIds : pinCount[o] <= 1

\* the status changes an order may make
AllowedTransitions ==
    {<<"pending", "paid">>, <<"paid", "completed">>, <<"pending", "expired">>,
     <<"pending", "refund_needed">>}

\* C2: every change of an order's status is pending->paid, paid->completed,
\* pending->expired or pending->refund_needed.
C2_MonotonicStatus ==
    [][\A o \in 1 .. Len(orders) :
            (faults' = 0 /\ orders'[o].status # orders[o].status)
                => <<orders[o].status, orders'[o].status>> \in AllowedTransitions]_vars

\* C3: a cycle that found the order paid and met no failure leaves the order in
\* status completed when it has sent the notification.
C3_EndsCompleted ==
    [][\A c \in Cycles :
            (faults' = 0 /\ (Leaves(c, "notify") \/ Leaves(c, "complete")))
                => orders'[Order(c)].status = "completed"]_vars

\* C4: when no poll cycle is running, an order is confirmed (paid or completed)
\* if and only if its pin effect was applied to the token.
C4_ConfirmedIffPinned ==
    Idle => \A o \in 1 .. Len(orders) : Confirmed(o) <=> pinCount[o] > 0

\* the pollers keep running: setInterval fires again and every awaited call returns
SpecPinLive ==
    /\ InitPin
    /\ [][NextPin]_vars
    /\ \A c \in Cycles : WF_vars(PollStep(c))

\* the order is pending, its payment window is over and its wallet does not hold the cost
ExpiredUnpaid(o) ==
    /\ o \in 1 .. Len(orders)
    /\ orders[o].status = "pending"
    /\ orders[o].expiresAt < now
    /\ ~verifyPayment(balance[o], orders[o].cost)

\* C14: an order that is pending and unpaid after its expiresAt is eventually moved to
\* status expired by the poller (or a store call failed on the way).
C14_EventuallyExpired ==
    \A o \in OrderIds :
        ExpiredUnpaid(o)
            ~> ((o \in 1 .. Len(orders) /\ orders[o].status = "expired") \/ faults > 0)

\* witness of C14: the poller did expire an order, one that ran out during a tick
C14_Witness_ExpiredInTick ==
    \E o \in 1 .. Len(orders) :
        orders[o].status = "expired" /\ faults = 0 /\ pinCount[o] = 0

\* C24: at most one cycle of the payment poller of server.ts is in progress at any
\* time: no cycle starts while an earlier one has not finished.
C24_OnePollCycle ==
    \A c, d \in Cycles :
        (/\ cyc[c].pc # "idle" /\ cyc[c].kind = "server"
         /\ cyc[d].pc # "idle" /\ cyc[d].kind = "server") => c = d

\* C5: a pin application of H hours called at time t on a token whose stored
\* pinnedUntil is T (0 when absent) sets pinnedUntil to T + H*3600000 when t < T and
\* to t + H*3600000 when t >= T; T is the value stored when the call read it and
\* still stored when it writes.
C5_PinExtension ==
    [][\A c \in Cycles :
            LET a == orders[Order(c)].tokenAddress
                H == orders[Order(c)].hours
                T == IF tokens[a].pinnedUntil = NULL THEN 0 ELSE tokens[a].pinnedUntil
                t == cyc[c].t
            IN  (Leaves(c, "pinwrite") /\ tokens'[a] # tokens[a] /\ cyc[c].cur = T)
                    => tokens'[a].pinnedUntil =
                            IF t < T THEN T + H * 3600000 ELSE t + H * 3600000]_vars

\* witness of C5: a pin was stacked on a pin still running (t < T): the token is pinned
\* for longer than any single order can buy from now
C5_Witness_Stacked ==
    \E a \in PinAddresses :
        /\ tokens[a].present
        /\ tokens[a].pinnedUntil > now + 2 * HourMs
        /\ \E o \in 1 .. Len(orders) : pinCount[o] >= 2

\* C6: the stored pinnedUntil of a token is never lower than a value it held earlier.
C6_NeverRewound ==
    [][\A a \in Addresses :
            (faults' = 0 /\ tokens[a].present /\ tokens'[a].present)
                => OrZero(tokens'[a].pinnedUntil) >= OrZero(tokens[a].pinnedUntil)]_vars

(***************************************************************************)
(* Where token rows come from: an empty store with pin orders, payments,   *)
(* votes and upserts for the same address.                                 *)
(***************************************************************************)
NextOrigin ==
    \/ \E a \in PinAddresses : FeedBoost(a, 2)
    \/ \E a \in PinAddresses : UpsertCall(a)
    \/ UpsertRead
    \/ \E ok \in BOOLEAN : UpsertWrite(ok)
    \/ UpsertReturn
    \/ \E a \in PinAddresses, cost \in Costs \ {0} : CreatePinOrder(a, 1, cost)
    \/ \E o \in OrderIds, d \in Deposits : Deposit(o, d)
    \/ \E c \in BoostCycles : PollStart(c, "server")
    \/ \E c \in BoostCycles, f \in BOOLEAN : PollVerify(c, f)
    \/ \E c \in BoostCycles, ok \in BOOLEAN : PollSetPaid(c, ok)
    \/ \E c \in BoostCycles : PollPinRead(c)
    \/ \E c \in BoostCycles, out \in PinOutcomes : PollPinWrite(c, out)
    \/ \E c \in BoostCycles, ok \in BOOLEAN : PollNotify(c, ok)
    \/ \E a \in PinAddresses : VoteRequest(1, a, "u1", 1)
    \/ \E ok \in BOOLEAN : VoteCheck(1, ok)
    \/ VoteInsert(1)
    \/ \E ok \in BOOLEAN : VoteUpdate(1, ok)
    \/ VoteRespond(1)
    \/ VoteDone(1)

SpecOrigin == InitStore /\ [][NextOrigin]_vars

PollMs == 10000
HalfPollMs == 5000
\* the last poll instant at which the clock still moves; later polls find the same time
Horizon == StartTime + MaxPolls * PollMs
AtPollInstant == (now - StartTime) % PollMs = 0

\* five seconds pass after a poll instant
Elapse ==
    /\ AtPollInstant
    /\ now < Horizon
    /\ now' = now + HalfPollMs
    /\ UNCHANGED <<tokens, orders, balance, cyc, faults, pinCount, pinNotes, voteVars, huntVars, fanVars, pay, listing, sweep, keygen, post, timers, fetch, clean, ws>>

\* the interval is over: the timer fires and the callback reads the pending orders at
\* the new poll instant (the previous callback has returned long before)
PollDue(c) ==
    /\ cyc[c].pc = "idle"
    /\ ~AtPollInstant \/ now = Horizon
    /\ now' = IF now = Horizon THEN now ELSE now + HalfPollMs
    /\ cyc' = [cyc EXCEPT ![c] = startCycle("server", orders, now')]
    /\ UNCHANGED <<tokens, orders, balance, faults, pinCount, pinNotes, voteVars, huntVars, fanVars, pay, listing, sweep, keygen, post, timers, fetch, clean, ws>>

\* POST /api/pin-order in the first seconds of the run
EarlyOrder(a, h, cost) ==
    /\ now < StartTime + PollMs
    /\ CreatePinOrder(a, h, cost)

\* the steps of a callback; it returns within the interval, so the test of line 112
\* (order.expiresAt < Date.now()) never holds for an order it was handed
PollerStep ==
    \/ \E f \in BOOLEAN : PollVerify(1, f)
    \/ \E ok \in BOOLEAN : PollSetPaid(1, ok)
    \/ PollPinRead(1)
    \/ \E out \in PinOutcomes : PollPinWrite(1, out)
    \/ \E ok \in BOOLEAN : PollNotify(1, ok)

NextLate ==
    \/ Elapse
    \/ PollDue(1)
    \/ \E a \in PinAddresses, cost \in Costs \ {0} : EarlyOrder(a, 1, cost)
    \/ \E o \in OrderIds, d \in Deposits : Deposit(o, d)
    \/ PollerStep

\* time passes, the timer keeps firing and every awaited call of a cycle returns
SpecLate ==
    /\ InitPin
    /\ [][NextLate]_vars
    /\ WF_vars(Elapse)
    /\ WF_vars(PollDue(1))
    /\ WF_vars(PollerStep)

\* the order is pending, its window is still open and its wallet holds the cost
FundedInTime(o) ==
    /\ o \in 1 .. Len(orders)
    /\ orders[o].status = "pending"
    /\ now < orders[o].expiresAt
    /\ verifyPayment(balance[o], orders[o].cost)

\* C32: a pending order whose payment address holds its cost before expiresAt (the
\* balance never decreases afterwards) is eventually marked paid, when the poller fires
\* every 10 seconds and its calls return (or a store call or balance lookup failed on
\* the way).
C32_FundedEventuallyPaid ==
    \A o \in OrderIds :
        FundedInTime(o)
            ~> ((o \in 1 .. Len(orders) /\ orders[o].status = "paid") \/ faults > 0)

\* witness of C32: the funds arrived before expiresAt, polls went on beyond it without
\* a failure, and the order is still pending
C32_Witness_PaidInTimeStillPending ==
    /\ orders # <<>>
    /\ orders[1].status = "pending"
    /\ verifyPayment(balance[1], orders[1].cost)
    /\ now >= orders[1].expiresAt + PollMs
    /\ cyc[1].pc = "idle"
    /\ faults = 0

(***************************************************************************)
(* Payment without funds, checked under SpecPin: POST /api/pin-order takes *)
(* the cost from the request body as it is.                                *)
(***************************************************************************)
\* C33: no order is marked paid while its payment address holds nothing, whatever
\* hours and cost the order was created with.
C33_NoFundsNotPaid ==
    [][\A o \in 1 .. Len(orders) :
            (orders[o].status = "pending" /\ orders'[o].status \in {"paid", "completed"})
                => balance[o] > 0]_vars

\* witness of C33: an order is paid, no call failed, and its address never held funds
C33_Witness_PaidWithoutFunds ==
    /\ orders # <<>>
    /\ orders[1].status = "paid"
    /\ orders[1].paidAt # NULL
    /\ balance[1] = 0
    /\ faults = 0

(***************************************************************************)
(* Pins and the retention sweep: a token is pinned by a paid order, a day  *)
(* and more passes, and deleteOldTokens runs.                              *)
(***************************************************************************)
\* server.ts:66: hours is taken from the request body; a pin of 25 hours
LongHours == 25

\* a day and forty minutes pass without a boost of the tokens in the store, while no
\* poll and no sweep is running
DayPasses ==
    /\ now < StartTime + DayMs
    /\ cyc[1].pc = "idle"
    /\ sweep.pc = "idle"
    /\ now' = now + DayMs + TickMs
    /\ UNCHANGED <<tokens, orders, balance, cyc, faults, pinCount, pinNotes, voteVars, huntVars, fanVars, pay, listing, sweep, keygen, post, timers, fetch, clean, ws>>

NextRetain ==
    \/ DayPasses
    \/ \E a \in PinAddresses, h \in {1, LongHours}, cost \in Costs \ {0} : CreatePinOrder(a, h, cost)
    \/ \E o \in OrderIds, d \in Deposits : Deposit(o, d)
    \/ PollStart(1, "server")
    \/ \E f \in BOOLEAN : PollVerify(1, f)
    \/ \E ok \in BOOLEAN : PollSetPaid(1, ok)
    \/ PollPinRead(1)
    \/ \E out \in PinOutcomes : PollPinWrite(1, out)
    \/ \E ok \in BOOLEAN : PollNotify(1, ok)
    \/ SweepBegin
    \/ \E ok \in BOOLEAN : SweepSelect(ok)
    \/ \E ok \in BOOLEAN : SweepDelete(ok)
    \/ \E ok \in BOOLEAN : SweepVotes(ok)
    \/ SweepNotify

SpecRetain == InitPin /\ [][NextRetain]_vars

\* C34: the retention sweep never deletes a token whose pin is still running
\* (pinnedUntil > now), whatever the hours of the order that pinned it.
C34_PinnedNotSwept ==
    [][\A a \in Addresses :
            (tokens[a].present /\ ~tokens'[a].present)
                => ~(OrZero(tokens[a].pinnedUntil) > now)]_vars

\* witness of C34: the order's pin was applied once and still runs, and the sweep has
\* deleted the token
C34_Witness_PinnedTokenSwept ==
    /\ orders # <<>>
    /\ orders[1].status = "paid"
    /\ pinCount[1] = 1
    /\ orders[1].paidAt + orders[1].hours * HourMs > now
    /\ sweep.deleted = {orders[1].tokenAddress}
    /\ ~tokens[orders[1].tokenAddress].present
    /\ faults = 0

(***************************************************************************)
(* Votes and the token store, checked under SpecSweep.                     *)
(***************************************************************************)
\* C35: every stored vote is for an address that has a row in the token store.
C35_VotesHaveTokens ==
    \A i \in 1 .. Len(votes) : tokens[votes[i].tokenAddress].present

\* witness of C35: a vote request was answered with the vote stored, no call failed, no
\* sweep is running, and the address of the vote has no token row
C35_Witness_VoteWithoutToken ==
    /\ \E r \in Reqs :
            /\ req[r].pc = "done"
            /\ req[r].resp = "ok"
            /\ ~tokens[req[r].tokenAddress].present
            /\ \E i \in 1 .. Len(votes) : votes[i].tokenAddress = req[r].tokenAddress
    /\ sweep = IdleSweep
    /\ faults = 0

(***************************************************************************)
(* What clients are sent about an order: the replies of POST               *)
(* /api/pin-order and GET /api/pin-order/:orderId and the events of the    *)
(* payment poller.                                                         *)
(***************************************************************************)
\* a status query that reads every column of the order
getPinOrderStatus_SelectAll(ords, orderId) ==
    IF orderId \in 1 .. Len(ords)
    THEN [id |-> orderId, tokenAddress |-> ords[orderId].tokenAddress,
          hours |-> ords[orderId].hours, cost |-> ords[orderId].cost,
          status |-> ords[orderId].status, paymentAddress |-> ords[orderId].paymentAddress,
          paymentPrivateKey |-> ords[orderId].paymentPrivateKey,
          createdAt |-> ords[orderId].createdAt, paidAt |-> ords[orderId].paidAt,
          expiresAt |-> ords[orderId].expiresAt]
    ELSE <<>>

\* db.ts:416-419: SELECT id, tokenAddress, hours, cost, status, paymentAddress,
\* createdAt, paidAt, expiresAt FROM pin_orders WHERE id = ?; <<>> stands for no row
getPinOrderStatus(ords, orderId) ==
    IF orderId \in 1 .. Len(ords)
    THEN [id |-> orderId, tokenAddress |-> ords[orderId].tokenAddress,
          hours |-> ords[orderId].hours, cost |-> ords[orderId].cost,
          status |-> ords[orderId].status, paymentAddress |-> ords[orderId].paymentAddress,
          createdAt |-> ords[orderId].createdAt, paidAt |-> ords[orderId].paidAt,
          expiresAt |-> ords[orderId].expiresAt]
    ELSE <<>>

\* GET /api/pin-order/:orderId (server.ts:181-198); getPinOrderStatus answers null on a
\* store error (db.ts:421-423), which is a 404 like an unknown id
GetOrderStatus(orderId, ok) ==
    /\ ~ok => faults < MaxFaults
    /\ faults' = IF ok THEN faults ELSE faults + 1
    /\ LET order == IF ok THEN getPinOrderStatus(orders, orderId) ELSE <<>>
       IN  post' = IF order # <<>> THEN [status |-> 200, order |-> order]
                                   ELSE [status |-> 404]
    /\ UNCHANGED <<now, tokens, pinVars, voteVars, huntVars, fanVars, pay, listing, sweep, keygen, timers, fetch, clean, ws>>

NextSecret ==
    \/ \E a \in PinAddresses, cost \in Costs \ {0} : CreatePinOrder(a, 1, cost)
    \/ \E orderId \in 1 .. MaxOrders + 1, ok \in BOOLEAN : GetOrderStatus(orderId, ok)
    \/ \E o \in OrderIds, d \in Deposits : Deposit(o, d)
    \/ \E c \in BoostCycles : PollStart(c, "server")
    \/ \E c \in BoostCycles, f \in BOOLEAN : PollVerify(c, f)
    \/ \E c \in BoostCycles, ok \in BOOLEAN : PollSetPaid(c, ok)
    \/ \E c \in BoostCycles : PollPinRead(c)
    \/ \E c \in BoostCycles, out \in PinOutcomes : PollPinWrite(c, out)
    \/ \E c \in BoostCycles, ok \in BOOLEAN : PollNotify(c, ok)

SpecSecret == InitNotify /\ [][NextSecret]_vars

\* the secret keys of the stored orders, and every secret key a keypair can have
StoredSecrets == {orders[o].paymentPrivateKey : o \in 1 .. Len(orders)}
AnySecret == {Secret(k) : k \in 1 .. MaxPosts + 1}

\* the numbers in the reply a client was sent last
ReplyNumbers ==
    IF post.status # 200 THEN {}
    ELSE IF "order" \in DOMAIN post
         THEN {post.order.id, post.order.hours, post.order.cost, post.order.paymentAddress,
               post.order.createdAt, post.order.paidAt, post.order.expiresAt}
         ELSE {post.id, post.paymentAddress, post.expiresAt}

\* the numbers of the token rows, which PIN_UPDATE and BOOST_UPDATE events carry
TokenNumbers ==
    UNION {{tokens[a].amount, tokens[a].totalAmount, tokens[a].pinnedUntil,
            tokens[a].boosted, tokens[a].dateAdded} : a \in {b \in Addresses : tokens[b].present}}

\* C36: the secret key of an order is in no reply and no event: the reply to the status
\* query has no paymentPrivateKey, no number of a reply or of a token row that an event
\* carries is the secret of a stored order, an event names nothing but its type and
\* its token, and the replies for an order do not change with its secret.
C36_SecretNeverSent ==
    /\ "order" \in DOMAIN post =>
            DOMAIN post.order = {"id", "tokenAddress", "hours", "cost", "status",
                                 "paymentAddress", "createdAt", "paidAt", "expiresAt"}
    /\ ReplyNumbers \cap StoredSecrets = {}
    /\ TokenNumbers \cap StoredSecrets = {}
    /\ \A i \in Conns : \A n \in 1 .. Len(inbox[i]) :
            DOMAIN inbox[i][n] = {"type", "tokenAddress"}
    /\ \A o \in 1 .. Len(orders) : \A s \in AnySecret :
            LET other == [orders EXCEPT ![o].paymentPrivateKey = s]
            IN  /\ getPinOrderStatus(other, o) = getPinOrderStatus(orders, o)
                /\ createdReply(other[o], o) = createdReply(orders[o], o)

\* witness of C36: the status of a paid order was queried after its pin events were sent
C36_Witness_PaidOrderQueried ==
    /\ post.status = 200
    /\ "order" \in DOMAIN post
    /\ post.order.status = "paid"
    /\ orders[post.order.id].paymentPrivateKey \in AnySecret
    /\ PinEvents(inbox[Subscriber]) = 2

(***************************************************************************)
(* The cleanup script (cleanup.ts) and deleteNonPumpFunTokens              *)
(* (db.ts:651-679), run against a store with votes.                        *)
(***************************************************************************)
\* WHERE LOWER(tokenAddress) NOT LIKE '%pump' (db.ts:658, 667)
notLikePump(tokenAddress) == ~endsWith(toLowerCase(Chars(tokenAddress)), Chars("pump"))

\* db.ts:656-659: DELETE FROM tokens WHERE LOWER(tokenAddress) NOT LIKE '%pump'
deleteNonPump(tks) ==
    [a \in DOMAIN tks |-> IF tks[a].present /\ notLikePump(a) THEN NoRow ELSE tks[a]]

\* db.ts:662-669: DELETE FROM votes WHERE tokenAddress IN (SELECT tokenAddress FROM
\* tokens WHERE LOWER(tokenAddress) NOT LIKE '%pump')
deleteNonPumpVotes(vs, tks) ==
    SelectSeq(vs, LAMBDA v : ~(tks[v.tokenAddress].present /\ notLikePump(v.tokenAddress)))

\* cleanup.ts:6: const success = await deleteNonPumpFunTokens()
CleanBegin ==
    /\ clean.pc = "idle"
    /\ clean' = [IdleClean EXCEPT !.pc = "tokens"]
    /\ UNCHANGED <<now, tokens, faults, pinVars, voteVars, huntVars, fanVars, pay, listing, sweep, keygen, post, timers, fetch, ws>>

\* db.ts:656-659: the DELETE on tokens; a failure is caught at line 673
CleanTokens(ok) ==
    /\ clean.pc = "tokens"
    /\ ~ok => faults < MaxFaults
    /\ faults' = IF ok THEN faults ELSE faults + 1
    /\ tokens' = IF ok THEN deleteNonPump(tokens) ELSE tokens
    /\ clean' = IF ok
                THEN [pc |-> "votes",
                      deleted |-> {a \in DOMAIN tokens : tokens[a].present /\ ~tokens'[a].present}]
                ELSE [clean EXCEPT !.pc = "failed"]
    /\ UNCHANGED <<now, pinVars, voteVars, huntVars, fanVars, pay, listing, sweep, keygen, post, timers, fetch, ws>>

\* db.ts:662-672: the DELETE on votes, and return true
CleanVotes(ok) ==
    /\ clean.pc = "votes"
    /\ ~ok => faults < MaxFaults
    /\ faults' = IF ok THEN faults ELSE faults + 1
    /\ votes' = IF ok THEN deleteNonPumpVotes(votes, tokens) ELSE votes
    /\ clean' = [clean EXCEPT !.pc = IF ok THEN "done" ELSE "failed"]
    /\ UNCHANGED <<now, tokens, pinVars, req, huntVars, fanVars, pay, listing, sweep, keygen, post, timers, fetch, ws>>

\* the rows reconciliation can have written, with and without votes to come
InitClean ==
    /\ now = StartTime
    /\ tokens \in [FeedAddresses -> {NoRow, FreshRow(1, StartTime)}]
    /\ \A a \in FeedAddresses :
            tokens[a].present => chainTracked(ChainOf(a)) /\ isPumpFun(a)
    /\ orders = <<>>
    /\ balance = [o \in OrderIds |-> 0]
    /\ cyc = [c \in Cycles |-> IdleCycle]
    /\ faults = 0
    /\ pinCount = [o \in OrderIds |-> 0]
    /\ pinNotes = [o \in OrderIds |-> 0]
    /\ votes = <<>>
    /\ req = [r \in Reqs |-> IdleReq]
    /\ feed = [a \in FeedAddresses |-> NotListed]
    /\ hunt = IdleHunt
    /\ ups = IdleUpsert
    /\ conns = [i \in Conns |-> "none"]
    /\ inbox = [i \in Conns |-> <<>>]
    /\ pay = NoPayment
    /\ listing = NoListing
    /\ sweep = IdleSweep
    /\ keygen = 0
    /\ post = NoReply
    /\ timers = <<0>>
    /\ fetch = NoFetch
    /\ clean = IdleClean
    /\ ws = MountedWs

NextClean ==
    \/ \E a \in {"Apump", " DPUMP "}, u \in Users : VoteRequest(1, a, u, 1)
    \/ \E ok \in BOOLEAN : VoteCheck(1, ok)
    \/ VoteInsert(1)
    \/ \E ok \in BOOLEAN : VoteUpdate(1, ok)
    \/ VoteRespond(1)
    \/ VoteDone(1)
    \/ CleanBegin
    \/ \E ok \in BOOLEAN : CleanTokens(ok)
    \/ \E ok \in BOOLEAN : CleanVotes(ok)

SpecClean == InitClean /\ [][NextClean]_vars

\* C37: the DELETE on tokens of deleteNonPumpFunTokens removes exactly the rows whose
\* address does not end in "pump" and leaves the other rows as they are, and its
\* DELETE on votes removes exactly the votes of the tokens it deleted and leaves the
\* other votes as they are.
C37_CleansTokensAndVotes ==
    [][/\ (clean.pc = "tokens" /\ clean'.pc = "votes")
            => tokens' = [a \in FeedAddresses |->
                            IF a \in {"Apump", "Bpump", "Epump"} THEN tokens[a] ELSE NoRow]
       /\ (clean.pc = "votes" /\ clean'.pc = "done")
            => votes' = SelectSeq(votes, LAMBDA v : v.tokenAddress \notin clean.deleted)]_vars

\* witness of C37: the script has ended well, it deleted a token that had a vote, that
\* vote is still stored, and a token ending in "pump" and its vote are still there
C37_Witness_CleanedWithVotes ==
    /\ clean.pc = "done"
    /\ clean.deleted = {" DPUMP "}
    /\ \E i \in 1 .. Len(votes) : votes[i].tokenAddress = " DPUMP "
    /\ tokens["Apump"].present
    /\ \E i \in 1 .. Len(votes) : votes[i].tokenAddress = "Apump"
    /\ \E r \in Reqs : req[r].pc = "idle"
    /\ faults = 0

(***************************************************************************)
(* The push connection of the TokenTable client                            *)
(* (TokenTable.tsx:48-52, 60-178); its server end is conns[Subscriber].    *)
(***************************************************************************)
\* TokenTable.tsx:51-52
maxRetries == 5
retryTimeout == 3000

\* lines 66-72: connectWebSocket as the closure of the render with wsRetries = seen
connectWebSocket(w) ==
    IF w.seen >= maxRetries
    THEN [w EXCEPT !.pc = "gaveup", !.timer = 0,
                   !.error = "Failed to connect to WebSocket after multiple attempts"]
    ELSE [w EXCEPT !.pc = "connecting", !.timer = 0]

\* lines 73-77: ws.onopen; the server has accepted the connection
WsOpen ==
    /\ ws.pc = "connecting"
    /\ conns[Subscriber] = "none"
    /\ conns' = [conns EXCEPT ![Subscriber] = "open"]
    /\ ws' = [ws EXCEPT !.pc = "open", !.error = "null", !.wsRetries = 0]
    /\ UNCHANGED <<now, tokens, faults, pinVars, voteVars, huntVars, inbox, pay, listing, sweep, keygen, post, timers, fetch, clean>>

\* lines 155-158: ws.onerror
WsError ==
    /\ ws.pc \in {"connecting", "open"}
    /\ ws.error # "WebSocket connection error"
    /\ ws' = [ws EXCEPT !.error = "WebSocket connection error"]
    /\ UNCHANGED <<now, tokens, faults, pinVars, voteVars, huntVars, fanVars, pay, listing, sweep, keygen, post, timers, fetch, clean>>

\* lines 160-167: ws.onclose, for an attempt that failed or a connection the server end
\* of which is gone; setTimeout(..., retryTimeout)
WsClose ==
    /\ \/ ws.pc = "connecting"
       \/ ws.pc = "open" /\ conns[Subscriber] \in {"closing", "none"}
    /\ ws' = [ws EXCEPT !.pc = "waiting", !.timer = retryTimeout]
    /\ UNCHANGED <<now, tokens, faults, pinVars, voteVars, huntVars, fanVars, pay, listing, sweep, keygen, post, timers, fetch, clean>>

\* lines 163-166: the timer fires: setWsRetries(prev => prev + 1); connectWebSocket()
WsRetry ==
    /\ ws.pc = "waiting"
    /\ ws.wsRetries < MaxAttempts
    /\ ws' = connectWebSocket([ws EXCEPT !.wsRetries = @ + 1])
    /\ UNCHANGED <<now, tokens, faults, pinVars, voteVars, huntVars, fanVars, pay, listing, sweep, keygen, post, timers, fetch, clean>>

NextWs ==
    \/ WsOpen
    \/ WsError
    \/ WsClose
    \/ WsRetry
    \/ Close(Subscriber)
    \/ Drop(Subscriber)
    \/ \E u \in Users : VoteRequest(1, "Apump", u, 1)
    \/ \E ok \in BOOLEAN : VoteCheck(1, ok)
    \/ VoteInsert(1)
    \/ \E ok \in BOOLEAN : VoteUpdate(1, ok)
    \/ VoteRespond(1)
    \/ VoteDone(1)

SpecWs == InitVote /\ [][NextWs]_vars

\* C38: a close of the push connection arms a retry after 3 seconds; an open resets
\* wsRetries to 0; and when the retry timer fires with wsRetries reaching maxRetries
\* (5) the client gives up with an error instead of connecting again, so wsRetries
\* never passes maxRetries.
C38_RetriesBounded ==
    [][/\ (ws.pc \in {"connecting", "open"} /\ ws'.pc = "waiting")
            => ws'.timer = 3000
       /\ (ws.pc # "open" /\ ws'.pc = "open") => ws'.wsRetries = 0
       /\ (ws.pc = "waiting" /\ ws'.pc # "waiting")
            => IF ws'.wsRetries >= 5
               THEN ws'.pc = "gaveup" /\ ws'.error \notin {"null", "WebSocket connection error"}
               ELSE ws'.pc = "connecting"
       /\ ws'.wsRetries <= 5]_vars

\* witness of C38: six attempts in a row have failed and the client is connecting again
C38_Witness_StillReconnecting ==
    /\ ws.pc = "connecting"
    /\ ws.wsRetries = 6
    /\ conns[Subscriber] = "none"
    /\ inbox[Subscriber] = <<>>

====
